---- MODULE Spec2Model ----
(***************************************************************************)
(* Client resilience layer of the assistant: the core OfflineQueue, the    *)
(* SyncManager that drives it, syncEntity's conflict resolution and the    *)
(* websocket part of JarvisApiClient.  Every component is a state machine  *)
(* over the fields of its class; an asynchronous method is cut at its      *)
(* await points, one action per resumption.                                *)
(***************************************************************************)
EXTENDS Integers, Sequences, FiniteSets, TLC

(* ------------------------------ bounds -------------------------------- *)
\* actions ever enqueued (ids 1..MaxActions, in enqueue order)
MaxActions == 2
\* largest configured options.maxRetries drawn by Init
MaxRetriesCfg == 2
\* pass slots: processQueue activations that can be represented at once
MaxPasses == 2
\* initialize() calls (hydrations from the store)
MaxLoads == 1

\* options.maxQueueSize of the modelled configuration
MaxQueueSize == 3
\* enqueue calls made on a full queue
MaxRejects == 1
\* WebSocket objects the client ever creates
MaxSockets == 4
\* sendAndWait calls ever made (correlation ids 1..MaxRequests)
MaxRequests == 2
\* largest configured config.retryAttempts drawn by Init
MaxRetryAttempts == 2
\* updatedAt / syncedAt timestamps of the entities are 1..MaxTime
MaxTime == 3
\* calls of on() the application makes
MaxOn == 3
\* calls of one unsubscribe function
MaxCalls == 2
\* Date.now() takes the values 0..MaxClock
MaxClock == 3
\* largest configured options.maxEntries drawn by Init
MaxEntriesCfg == 2

ActionTypes == {"X", "Y"}
ErrMsgs == {"e1"}
NoHandlerError == "No handler for action type"
NoError == "undefined"

VARIABLES
  \* ---- OfflineQueue fields
  queue,          \* this.queue: sequence of QueuedAction records
  handlers,       \* this.handlers: the action types that have a handler
  processing,     \* this.processing
  online,         \* this.online
  syncTimer,      \* the timeouts of scheduleRetry that are armed
  maxRetries,     \* this.options.maxRetries
  maxQueueSize,   \* this.options.maxQueueSize
  \* ---- the persistent store under options.storageKey
  stored,         \* [present, val]: the serialized queue array, if any
  \* ---- control state of the asynchronous methods
  passes,         \* processQueue activations, one record per slot
  enqWait,        \* ids whose enqueue() awaits its saveToStorage
  retryWait,      \* TRUE while a retryFailed() awaits its saveToStorage
  loadWait,       \* [active, ok, present, val]: a loadFromStorage awaiting storage.get
  nextId,         \* next id generateId hands out
  budget,         \* enqueue calls the application makes in all
  rejected,       \* enqueue calls that threw 'Queue is full'
  loads,          \* hydrations so far (generation of the objects in queue)
  \* ---- observation of the queue (history, not program state)
  succeeded,      \* ids whose handler has resolved
  fails,          \* per id: rejected handler invocations since enqueue / retryFailed
  disposed,       \* dispose() has been called on the queue
  \* ---- SyncManager
  status,         \* this.status: isOnline, isSyncing, lastSyncAt, the counts, syncErrors
  syncRun,        \* [pc, wait, ok, ran]: where the running sync() stands
  syncDue,        \* TRUE when setOnline has reached its call of this.sync()
  emitted,        \* the event emitted last
  statusStored,   \* what the store holds under 'sync-status'
  \* ---- JarvisApiClient, websocket part
  ws,             \* this.ws: the current socket, 0 for null
  wsStatus,       \* this.wsStatus
  wsReconnectAttempts,
  retryAttempts,  \* this.config.retryAttempts
  sockets,        \* per WebSocket object its readyState, "none" before it is created
  reconnectTimers,\* timeouts armed by attemptReconnect and not yet fired
  pendingRequests,\* keys of this.pendingRequests
  requests,       \* per sendAndWait call: its promise, its timeout, what was sent
  wsObs,          \* observation of the connection (history, not program state)
  eventHandlers,  \* this.eventHandlers: per message type the set of handlers
  subscriptions,  \* the on() calls made: [type, handler, calls of its unsubscribe]
  delivered,      \* the last message emitted: its type and the handlers invoked
  \* ---- SyncManager.syncEntity
  conflictStrategy, \* this.conflictStrategies.get(entityType): [strategy, resolver]
  entRun,         \* the syncEntity call: its arguments, its position, its result
  \* ---- CacheManager
  memoryCache,    \* this.memoryCache: the entries in the insertion order of the Map
  cleanupTimer,   \* TRUE while the interval of startCleanup is set
  maxEntries,     \* this.options.maxEntries
  cacheStored,    \* the persistent tier: per key the entry under 'cache:' + key
  clock,          \* Date.now()
  \* ---- observation of the cache (history, not program state)
  written,        \* per key the entry of its latest set(), none after delete / clear
  returned,       \* the last result of get() or has(): [op, key, data]
  getWait,        \* a get() suspended at storage.get: [active, key, stored]
  \* ---- OfflineQueue of the mobile app (services/offline.ts)
  mobileStored,   \* the queue under QUEUE_KEY in AsyncStorage: items [id, retries]
  isProcessing,   \* this.isProcessing
  isConnected,    \* the connectivity NetInfo reports
  mpasses,        \* the processQueue() calls: [pc, queue, idx, remaining]
  madds,          \* the add() calls: [pc, queue, id]
  posted,         \* per item id, how often processItem has resolved for it
  discarded,      \* the ids dropped at MAX_RETRIES
  madded          \* the ids whose add() has resolved after its save

qvars == <<queue, handlers, processing, online, syncTimer, maxRetries, maxQueueSize, stored,
           passes, enqWait, retryWait, loadWait, nextId, budget, rejected, loads,
           succeeded, fails, disposed>>

smvars == <<status, syncRun, syncDue, emitted, statusStored>>

\* the subscriber side of the client
subvars == <<eventHandlers, subscriptions, delivered>>

wsvars == <<ws, wsStatus, wsReconnectAttempts, retryAttempts, sockets, reconnectTimers,
            pendingRequests, requests, wsObs, subvars>>

evars == <<conflictStrategy, entRun>>

cvars == <<memoryCache, cleanupTimer, maxEntries, cacheStored, clock, written, returned,
           getWait>>

mvars == <<mobileStored, isProcessing, isConnected, mpasses, madds, posted, discarded,
           madded>>

vars == <<qvars, smvars, wsvars, evars, cvars, mvars>>

(* ------------------------------ helpers ------------------------------- *)
Min(S) == CHOOSE x \in S : \A y \in S : x <= y

Ids == 1..(MaxActions + 1)

\* no action object (the loop variable outside the loop body)
NoAction == [id |-> 0, type |-> "X", retryCount |-> 0, maxRetries |-> 0,
             status |-> "pending", error |-> NoError, gen |-> 0]

\* a processQueue activation: cur is the action of the loop body, rest the
\* part of pendingActions still to come, log the handler invocations so far,
\* reentered whether processQueue() was called again while this one ran
IdlePass == [pc |-> "idle", cur |-> NoAction, rest |-> <<>>, log |-> <<>>,
             reentered |-> FALSE]

NoLoad == [active |-> FALSE, ok |-> TRUE, present |-> FALSE, val |-> <<>>]

\* two records denote the same JavaScript object: objects made by enqueue and
\* objects made by one hydration (JSON copies) differ in gen
SameObj(a, b) == a.id = b.id /\ a.gen = b.gen

\* storage.set(storageKey, this.queue): the array as JSON (no object identity)
Serialize(q) == [k \in DOMAIN q |-> [q[k] EXCEPT !.gen = 0]]

\* storage.get: fresh objects parsed from the JSON
Hydrate(s, g) == [k \in DOMAIN s |-> [s[k] EXCEPT !.gen = g]]

\* a save that persists the pending actions only
saveToStoragePendingOnly(q) ==
  [present |-> TRUE, val |-> Serialize(SelectSeq(q, LAMBDA a : a.status = "pending"))]

\* saveToStorage(): storage.set(storageKey, this.queue)
saveToStorage(q) == [present |-> TRUE, val |-> Serialize(q)]

getPendingCount == Cardinality({k \in DOMAIN queue : queue[k].status = "pending"})

getFailedCount == Cardinality({k \in DOMAIN queue : queue[k].status = "failed"})

InQueue(i) == \E k \in DOMAIN queue : queue[k].id = i

Entry(i) == queue[CHOOSE k \in DOMAIN queue : queue[k].id = i]

ActivePasses == {p \in 1..MaxPasses : passes[p].pc # "idle"}

\* the ids some action object or stored copy still carries
Held(q, st, ps, lw) ==
  {q[k].id : k \in DOMAIN q} \cup {st.val[k].id : k \in DOMAIN st.val}
    \cup {lw.val[k].id : k \in DOMAIN lw.val}
    \cup {ps[p].cur.id : p \in DOMAIN ps}
    \cup UNION {{ps[p].rest[k].id : k \in DOMAIN ps[p].rest} : p \in DOMAIN ps}

\* the history of the ids, kept for as long as the id exists anywhere
History(s, f) ==
  LET held == Held(queue', stored', passes', loadWait')
  IN  /\ succeeded' = s \cap held
      /\ fails' = [i \in Ids |-> IF i \in held THEN f[i] ELSE 0]

\* the history after a step of any operation but dispose()
Observe(s, f) == History(s, f) /\ UNCHANGED disposed

(* ----------------------------- processQueue --------------------------- *)
\* a guard that looks at connectivity only
PassGuardOnlineOnly(onl) == onl

\* the guard of processQueue, given the value this.online has at the call
PassGuard(onl) == ~processing /\ onl

\* a replay order that groups the pending actions by type
PassOrderByType(q) ==
  SelectSeq(q, LAMBDA a : a.status = "pending" /\ a.type = "Y")
    \o SelectSeq(q, LAMBDA a : a.status = "pending" /\ a.type = "X")

\* the order in which a pass takes the pending actions
PassOrder(q) == SelectSeq(q, LAMBDA a : a.status = "pending")

\* a retry decision that allows one more attempt
AfterFailureStrict(a, msg) ==
  LET n == a.retryCount + 1
  IN  IF n > a.maxRetries
      THEN [a EXCEPT !.retryCount = n, !.status = "failed", !.error = msg]
      ELSE [a EXCEPT !.retryCount = n, !.status = "pending"]

\* a retry decision that never gives up
AfterFailureUncapped(a, msg) == [a EXCEPT !.retryCount = @ + 1, !.status = "pending"]

\* the retry decision of the catch block
AfterFailure(a, msg) ==
  LET n == a.retryCount + 1
  IN  IF n >= a.maxRetries
      THEN [a EXCEPT !.retryCount = n, !.status = "failed", !.error = msg]
      ELSE [a EXCEPT !.retryCount = n, !.status = "pending"]

\* the end of a pass: completed actions leave this.queue
DropCompleted(q) == SelectSeq(q, LAMBDA a : a.status # "completed")

\* a treatment of an action without handler that spends a retry on it
WithoutHandlerRetried(a) ==
  [a EXCEPT !.retryCount = @ + 1,
            !.status = IF a.retryCount + 1 >= a.maxRetries THEN "failed" ELSE "pending",
            !.error = NoHandlerError]

\* what the loop does to an action whose type has no handler
WithoutHandler(a) == [a EXCEPT !.status = "failed", !.error = NoHandlerError]

\* The loop of processQueue over the rest of pendingActions up to its next
\* await: actions without a handler are marked failed, the first action with
\* a handler becomes 'processing' and the queue is saved; at the end of the
\* list the completed actions are dropped and the queue is saved.  A write to
\* an action reaches this.queue when this.queue still holds that object.
RunLoop(p, rest, log) ==
  LET hs == {k \in DOMAIN rest : rest[k].type \in handlers}
      j == IF hs = {} THEN Len(rest) + 1 ELSE Min(hs)
      skip == 1..(j-1)
      touch(a, k) == IF k \in skip
                     THEN WithoutHandler(a)
                     ELSE [a EXCEPT !.status = "processing"]
      hit(e) == {k \in 1..j : k \in DOMAIN rest /\ SameObj(e, rest[k])}
      q1 == [n \in DOMAIN queue |->
               IF hit(queue[n]) = {} THEN queue[n]
               ELSE touch(queue[n], CHOOSE k \in hit(queue[n]) : TRUE)]
  IN  IF j <= Len(rest)
      THEN /\ queue' = q1
           /\ stored' = saveToStorage(q1)
           /\ passes' = [passes EXCEPT ![p] =
                           [pc |-> "save1", cur |-> touch(rest[j], j),
                            rest |-> SubSeq(rest, j + 1, Len(rest)), log |-> log,
                            reentered |-> passes[p].reentered]]
      ELSE /\ queue' = DropCompleted(q1)
           /\ stored' = saveToStorage(DropCompleted(q1))
           /\ passes' = [passes EXCEPT ![p] =
                           [pc |-> "final", cur |-> NoAction, rest |-> <<>>, log |-> log,
                            reentered |-> passes[p].reentered]]

\* a call of processQueue(), run to its first await; onl is this.online
processQueue(onl) ==
  IF PassGuard(onl) /\ \E p \in 1..MaxPasses : passes[p].pc = "idle"
  THEN /\ processing' = TRUE
       /\ RunLoop(Min({p \in 1..MaxPasses : passes[p].pc = "idle"}),
                  PassOrder(queue), <<>>)
  ELSE /\ passes' = [p \in DOMAIN passes |->
                       IF processing /\ passes[p].pc # "idle"
                       THEN [passes[p] EXCEPT !.reentered = TRUE] ELSE passes[p]]
       /\ UNCHANGED <<processing, queue, stored>>

\* the action object the pass p is working on, as the pass sees it
Current(p) ==
  LET at == {n \in DOMAIN queue : SameObj(queue[n], passes[p].cur)}
  IN  IF at = {} THEN passes[p].cur ELSE queue[CHOOSE n \in at : TRUE]

\* the save before the handler has settled: the handler is invoked
InvokeHandler(p) ==
  /\ passes[p].pc = "save1"
  /\ passes' = [passes EXCEPT ![p].pc = "handler",
                              ![p].log = Append(@, passes[p].cur.id)]
  /\ UNCHANGED <<queue, handlers, processing, online, syncTimer, maxRetries,
                 maxQueueSize, stored, enqWait, retryWait, loadWait, nextId,
                 budget, rejected, loads>>
  /\ Observe(succeeded, fails)

\* the handler settles: ok, or rejected with message msg
HandlerSettles(p, ok, msg) ==
  /\ passes[p].pc = "handler"
  /\ LET cur == Current(p)
         new == IF ok THEN [cur EXCEPT !.status = "completed"]
                      ELSE AfterFailure(cur, msg)
         q1 == [n \in DOMAIN queue |->
                  IF SameObj(queue[n], cur) THEN new ELSE queue[n]]
     IN  /\ queue' = q1
         /\ stored' = saveToStorage(q1)
         /\ passes' = [passes EXCEPT ![p].pc = "save2", ![p].cur = NoAction]
         /\ UNCHANGED <<handlers, processing, online, syncTimer, maxRetries,
                        maxQueueSize, enqWait, retryWait, loadWait, nextId,
                        budget, rejected, loads>>
         /\ Observe(IF ok THEN succeeded \cup {cur.id} ELSE succeeded,
                    IF ok THEN fails ELSE [fails EXCEPT ![cur.id] = @ + 1])

\* the save after the handler has settled: the loop goes on
LoopContinues(p) ==
  /\ passes[p].pc = "save2"
  /\ RunLoop(p, passes[p].rest, passes[p].log)
  /\ UNCHANGED <<handlers, processing, online, syncTimer, maxRetries,
                 maxQueueSize, enqWait, retryWait, loadWait, nextId, budget, rejected, loads>>
  /\ Observe(succeeded, fails)

\* a test that looks only at the actions the pass itself has invoked
hasRetryableOfThePass(q, invoked) ==
  \E k \in DOMAIN q :
    q[k].status = "pending" /\ \E n \in DOMAIN invoked : invoked[n] = q[k].id

\* this.queue.some(a => a.status === 'pending'), whatever the pass invoked
hasRetryable(q, invoked) == \E k \in DOMAIN q : q[k].status = "pending"

\* a scheduleRetry that leaves the armed timeout running
scheduleRetryUncleared(armed) == armed + 1

\* scheduleRetry(): the armed timeout, if any, is cleared and one is armed
scheduleRetry(armed) == 1

\* the final save has settled: finally-block, then scheduleRetry (one shared
\* timer, reset on each call) if an action is pending
PassEnds(p) ==
  /\ passes[p].pc = "final"
  /\ passes' = [passes EXCEPT ![p] = IdlePass]
  /\ processing' = FALSE
  /\ syncTimer' = IF hasRetryable(queue, passes[p].log)
                  THEN scheduleRetry(syncTimer)
                  ELSE syncTimer
  /\ UNCHANGED <<queue, handlers, online, maxRetries, maxQueueSize, stored,
                 enqWait, retryWait, loadWait, nextId, budget, rejected, loads>>
  /\ Observe(succeeded, fails)

(* ------------------------- the other operations ----------------------- *)
\* a capacity test that lets one action too many in
QueueIsFullStrict(q, max) == Len(q) > max

\* the capacity test of enqueue
QueueIsFull(q, max) == Len(q) >= max

\* enqueue(type, payload) on a full queue: throws before anything is touched
enqueueThrows ==
  /\ rejected < MaxRejects
  /\ QueueIsFull(queue, maxQueueSize)
  /\ rejected' = rejected + 1
  /\ UNCHANGED <<queue, handlers, processing, online, syncTimer, maxRetries,
                 maxQueueSize, stored, passes, enqWait, retryWait, loadWait,
                 nextId, budget, loads, succeeded, fails, disposed>>

\* enqueue(type, payload) up to its await: capacity check, push, save
enqueue(t) ==
  /\ nextId <= budget
  /\ ~QueueIsFull(queue, maxQueueSize)
  /\ LET action == [id |-> nextId, type |-> t, retryCount |-> 0,
                    maxRetries |-> maxRetries, status |-> "pending",
                    error |-> NoError, gen |-> 0]
     IN  /\ queue' = Append(queue, action)
         /\ stored' = saveToStorage(Append(queue, action))
  /\ enqWait' = enqWait \cup {nextId}
  /\ nextId' = nextId + 1
  /\ UNCHANGED <<handlers, processing, online, syncTimer, maxRetries, maxQueueSize,
                 passes, retryWait, loadWait, budget, rejected, loads>>
  /\ Observe(succeeded, fails)

\* enqueue after its save: start a pass if online and idle, return the id
enqueueReturns(i) ==
  /\ i \in enqWait
  /\ enqWait' = enqWait \ {i}
  /\ IF online /\ ~processing
     THEN processQueue(online)
     ELSE UNCHANGED <<processing, queue, stored, passes>>
  /\ UNCHANGED <<handlers, online, syncTimer, maxRetries, maxQueueSize,
                 retryWait, loadWait, nextId, budget, rejected, loads>>
  /\ Observe(succeeded, fails)

setOnline(b) ==
  /\ online' = b
  /\ IF b /\ ~online
     THEN processQueue(b)
     ELSE UNCHANGED <<processing, queue, stored, passes>>
  /\ UNCHANGED <<handlers, syncTimer, maxRetries, maxQueueSize,
                 enqWait, retryWait, loadWait, nextId, budget, rejected, loads>>
  /\ Observe(succeeded, fails)

clearFailed ==
  /\ queue' = SelectSeq(queue, LAMBDA a : a.status # "failed")
  /\ stored' = saveToStorage(queue')
  /\ UNCHANGED <<handlers, processing, online, syncTimer, maxRetries, maxQueueSize,
                 passes, enqWait, retryWait, loadWait, nextId, budget, rejected, loads>>
  /\ Observe(succeeded, fails)

clearAll ==
  /\ queue' = <<>>
  /\ stored' = saveToStorage(<<>>)
  /\ UNCHANGED <<handlers, processing, online, syncTimer, maxRetries, maxQueueSize,
                 passes, enqWait, retryWait, loadWait, nextId, budget, rejected, loads>>
  /\ Observe(succeeded, fails)

\* a reset that leaves the retry count as it is
ResetFailedKeepCount(a) ==
  IF a.status = "failed" THEN [a EXCEPT !.status = "pending", !.error = NoError] ELSE a

\* what retryFailed does to one action
ResetFailed(a) ==
  IF a.status = "failed"
  THEN [a EXCEPT !.status = "pending", !.retryCount = 0, !.error = NoError]
  ELSE a

\* retryFailed() up to its await
retryFailed ==
  /\ ~retryWait
  /\ queue' = [k \in DOMAIN queue |-> ResetFailed(queue[k])]
  /\ stored' = saveToStorage(queue')
  /\ retryWait' = TRUE
  /\ UNCHANGED <<handlers, processing, online, syncTimer, maxRetries, maxQueueSize,
                 passes, enqWait, loadWait, nextId, budget, rejected, loads>>
  /\ Observe(succeeded, [i \in Ids |->
                IF \E k \in DOMAIN queue : queue[k].id = i /\ queue[k].status = "failed"
                THEN 0 ELSE fails[i]])

\* retryFailed() after its save: processQueue()
retryFailedReturns ==
  /\ retryWait
  /\ retryWait' = FALSE
  /\ processQueue(online)
  /\ UNCHANGED <<handlers, online, syncTimer, maxRetries, maxQueueSize,
                 enqWait, loadWait, nextId, budget, rejected, loads>>
  /\ Observe(succeeded, fails)

\* the timeout armed by scheduleRetry fires
RetryTimerFires ==
  /\ syncTimer > 0
  /\ syncTimer' = syncTimer - 1
  /\ IF online
     THEN processQueue(online)
     ELSE UNCHANGED <<processing, queue, stored, passes>>
  /\ UNCHANGED <<handlers, online, maxRetries, maxQueueSize,
                 enqWait, retryWait, loadWait, nextId, budget, rejected, loads>>
  /\ Observe(succeeded, fails)

dispose ==
  /\ syncTimer > 0 \/ ~disposed
  /\ syncTimer' = 0
  /\ disposed' = TRUE
  /\ UNCHANGED <<queue, handlers, processing, online, maxRetries, maxQueueSize, stored,
                 passes, enqWait, retryWait, loadWait, nextId, budget, rejected, loads>>
  /\ History(succeeded, fails)

\* initialize() -> loadFromStorage up to its await: storage.get is called;
\* it answers with what the store holds now, or rejects
loadFromStorage(ok) ==
  /\ ~loadWait.active
  /\ loads < MaxLoads
  /\ loadWait' = [active |-> TRUE, ok |-> ok,
                  present |-> stored.present, val |-> stored.val]
  /\ UNCHANGED <<queue, handlers, processing, online, syncTimer, maxRetries,
                 maxQueueSize, stored, passes, enqWait, retryWait, nextId, budget, rejected, loads>>
  /\ Observe(succeeded, fails)

\* loadFromStorage after storage.get has settled
loadSettles ==
  /\ loadWait.active
  /\ loadWait' = NoLoad
  /\ loads' = loads + 1
  /\ queue' = IF ~loadWait.ok THEN <<>>
              ELSE IF loadWait.present THEN Hydrate(loadWait.val, loads + 1)
              ELSE queue
  /\ UNCHANGED <<handlers, processing, online, syncTimer, maxRetries, maxQueueSize,
                 stored, passes, enqWait, retryWait, nextId, budget, rejected>>
  /\ Observe(succeeded, fails)

\* the process ends and a new OfflineQueue is constructed over the same
\* store, with the same options and handlers: nothing of the old object
\* survives but what the store holds
restart ==
  /\ queue' = <<>>
  /\ processing' = FALSE
  /\ online' = TRUE
  /\ syncTimer' = 0
  /\ passes' = [p \in 1..MaxPasses |-> IdlePass]
  /\ enqWait' = {}
  /\ retryWait' = FALSE
  /\ loadWait' = NoLoad
  /\ UNCHANGED <<handlers, maxRetries, maxQueueSize, stored, nextId, budget,
                 rejected, loads>>
  /\ Observe(succeeded, fails)

(* ----------------------------- SyncManager ---------------------------- *)
\* no sync() running; ran holds the ids the awaited pass gave to a handler
IdleSync == [pc |-> "idle", wait |-> 0, ok |-> TRUE, ran |-> {}]

\* updateCounts()
updateCounts(st) ==
  [st EXCEPT !.pendingCount = getPendingCount, !.failedCount = getFailedCount]

\* queue.processQueue() called from outside the queue
callProcessQueue ==
  /\ processQueue(online)
  /\ UNCHANGED <<handlers, online, syncTimer, maxRetries, maxQueueSize,
                 enqWait, retryWait, loadWait, nextId, budget, rejected, loads>>
  /\ Observe(succeeded, fails)

\* sync() from its await of queue.processQueue() on: lastSyncAt is set and
\* saveStatus() writes it to the store (ok: the write succeeds)
RecordSync(st, ok, ran) ==
  /\ status' = [st EXCEPT !.lastSyncAt = "now"]
  /\ syncRun' = [pc |-> "save", wait |-> 0, ok |-> ok, ran |-> ran]
  /\ statusStored' = IF ok THEN "now" ELSE statusStored

\* a guard of sync() that looks at connectivity only
SyncSkippedWhenOffline == ~status.isOnline

\* the guard of sync(): nothing is done while syncing or offline
SyncSkipped == status.isSyncing \/ ~status.isOnline

\* sync() up to its first await that suspends.  Awaiting a processQueue()
\* that returned at once resumes before any other event, so the method then
\* runs on to the await of saveStatus().
sync ==
  /\ syncDue' = FALSE
  /\ IF SyncSkipped
     THEN UNCHANGED <<qvars, status, syncRun, emitted, statusStored>>
     ELSE LET st == [status EXCEPT !.isSyncing = TRUE, !.syncErrors = <<>>]
              idle == {p \in 1..MaxPasses : passes[p].pc = "idle"}
          IN  /\ callProcessQueue
              /\ IF PassGuard(online) /\ idle # {}
                 THEN /\ status' = st
                      /\ syncRun' = [pc |-> "queue", wait |-> Min(idle), ok |-> TRUE,
                                      ran |-> {}]
                      /\ emitted' = "sync_started"
                      /\ UNCHANGED statusStored
                 ELSE /\ \E ok \in BOOLEAN : RecordSync(st, ok, {})
                      /\ emitted' = "sync_started"

\* the pass sync() awaits ends: sync() resumes
syncResumes(p) ==
  IF syncRun.pc = "queue" /\ syncRun.wait = p
  THEN /\ \E ok \in BOOLEAN :
            RecordSync(status, ok, {passes[p].log[k] : k \in DOMAIN passes[p].log})
       /\ UNCHANGED <<syncDue, emitted>>
  ELSE UNCHANGED smvars

\* saveStatus() has settled: sync_completed, or the catch block; finally
syncSettles ==
  /\ syncRun.pc = "save"
  /\ emitted' = IF syncRun.ok THEN "sync_completed" ELSE "sync_failed"
  /\ status' = updateCounts([status EXCEPT
                  !.isSyncing = FALSE,
                  !.syncErrors = IF syncRun.ok THEN @ ELSE Append(@, "store")])
  /\ syncRun' = IdleSync
  /\ UNCHANGED <<qvars, syncDue, statusStored>>

\* SyncManager.setOnline(online) up to its call of this.sync()
smSetOnline(b) ==
  /\ status' = [status EXCEPT !.isOnline = b]
  /\ setOnline(b)
  /\ emitted' = IF b THEN "online" ELSE "offline"
  /\ syncDue' = (b /\ ~status.isOnline)
  /\ UNCHANGED <<syncRun, statusStored>>

\* the periodic probe of startNetworkMonitoring: its fetch has settled, with
\* response.ok = b or, rejected, with b = FALSE
probeSettles(b) == smSetOnline(b)

\* hasPendingChanges(): reads the count kept in this.status
hasPendingChanges == status.pendingCount > 0

\* getStatus(): refreshes the counts
getStatus ==
  /\ status' = updateCounts(status)
  /\ UNCHANGED <<qvars, syncRun, syncDue, emitted, statusStored>>

SMInit ==
  /\ status = [isOnline |-> TRUE, isSyncing |-> FALSE, lastSyncAt |-> "null",
               pendingCount |-> 0, failedCount |-> 0, syncErrors |-> <<>>]
  /\ syncRun = IdleSync
  /\ syncDue = FALSE
  /\ emitted = "none"
  /\ statusStored = "null"


(* ---------------------- JarvisApiClient: websocket -------------------- *)
Payloads == {"a", "b"}

NoRequest == [state |-> "none", by |-> "none", value |-> "none", timer |-> FALSE,
              sent |-> FALSE, first |-> "none"]

\* readyState CONNECTING, OPEN or CLOSING: the socket's events can still fire
LiveSockets == {s \in 1..MaxSockets : sockets[s] \in {"connecting", "open", "closing"}}

UnusedSockets == {s \in 1..MaxSockets : sockets[s] = "none"}

\* something of an earlier connection can still act on the client
Live == LiveSockets # {} \/ reconnectTimers > 0

\* the guard of connect(): the current socket is open
AlreadyOpen == ws # 0 /\ sockets[ws] = "open"

\* connect(): nothing if the current socket is open, else a new WebSocket
\* becomes the current socket and gets the four callbacks
connect ==
  IF AlreadyOpen
  THEN UNCHANGED <<ws, wsStatus, sockets>>
  ELSE /\ UnusedSockets # {}
       /\ wsStatus' = "connecting"
       /\ sockets' = [sockets EXCEPT ![Min(UnusedSockets)] = "connecting"]
       /\ ws' = Min(UnusedSockets)

\* the application calls connect()
appConnect ==
  /\ connect
  /\ wsObs' = IF AlreadyOpen
              THEN [wsObs EXCEPT !.disconnectRequested = FALSE]
              ELSE [tangled |-> wsObs.tangled \/ Live, opened |-> FALSE,
                    autoAttempts |-> 0, failedEmits |-> 0,
                    disconnectRequested |-> FALSE]
  /\ UNCHANGED <<wsReconnectAttempts, retryAttempts, subvars, reconnectTimers,
                 pendingRequests, requests>>

\* the timeout armed by attemptReconnect fires: connect()
reconnectTimeout ==
  /\ reconnectTimers > 0
  /\ reconnectTimers' = reconnectTimers - 1
  /\ connect
  /\ wsObs' = IF AlreadyOpen THEN wsObs
              ELSE [wsObs EXCEPT !.autoAttempts = @ + 1]
  /\ UNCHANGED <<wsReconnectAttempts, retryAttempts, subvars, pendingRequests, requests>>

\* ws.onopen of socket s
onopen(s) ==
  /\ sockets[s] = "connecting"
  /\ sockets' = [sockets EXCEPT ![s] = "open"]
  /\ wsStatus' = "connected"
  /\ wsReconnectAttempts' = 0
  /\ wsObs' = [wsObs EXCEPT !.opened = TRUE, !.autoAttempts = 0, !.failedEmits = 0]
  /\ UNCHANGED <<ws, retryAttempts, subvars, reconnectTimers, pendingRequests, requests>>

\* a connection loss that rejects what is pending
RejectedOnLoss(reqs) ==
  [r \in DOMAIN reqs |->
     IF reqs[r].state = "pending"
     THEN [reqs[r] EXCEPT !.state = "rejected", !.by = "close"] ELSE reqs[r]]

\* the requests after onclose, onerror or disconnect(): none of the three
\* touches this.pendingRequests or a promise
AfterLoss(reqs) == reqs

\* ws.onerror of socket s; the socket closes afterwards
onerror(s) ==
  /\ sockets[s] \in {"connecting", "open"}
  /\ sockets' = [sockets EXCEPT ![s] = "closing"]
  /\ wsStatus' = "error"
  /\ requests' = AfterLoss(requests)
  /\ UNCHANGED <<ws, wsReconnectAttempts, retryAttempts, subvars, reconnectTimers,
                 pendingRequests, wsObs>>

\* a give-up test that allows one more attempt
GiveUpLate(n, max) == n > max

\* the test of attemptReconnect
GiveUp(n, max) == n >= max

\* ws.onclose of socket s, with attemptReconnect()
onclose(s) ==
  /\ sockets[s] \in {"connecting", "open", "closing"}
  /\ sockets' = [sockets EXCEPT ![s] = "closed"]
  /\ IF GiveUp(wsReconnectAttempts, retryAttempts)
     THEN /\ wsStatus' = "disconnected"
          /\ wsObs' = [wsObs EXCEPT !.failedEmits = IF @ < 2 THEN @ + 1 ELSE @]
          /\ UNCHANGED <<wsReconnectAttempts, reconnectTimers>>
     ELSE /\ wsStatus' = "reconnecting"
          /\ wsReconnectAttempts' = wsReconnectAttempts + 1
          /\ reconnectTimers' = reconnectTimers + 1
          /\ UNCHANGED wsObs
  /\ requests' = AfterLoss(requests)
  /\ UNCHANGED <<ws, retryAttempts, subvars, pendingRequests>>

\* disconnect(): close the current socket and forget it
disconnect ==
  /\ IF ws # 0
     THEN /\ sockets' = [sockets EXCEPT ![ws] =
                           IF @ \in {"connecting", "open"} THEN "closing" ELSE @]
          /\ ws' = 0
     ELSE UNCHANGED <<sockets, ws>>
  /\ wsStatus' = "disconnected"
  /\ wsObs' = [wsObs EXCEPT !.disconnectRequested = TRUE, !.tangled = @ \/ Live]
  /\ requests' = AfterLoss(requests)
  /\ UNCHANGED <<wsReconnectAttempts, retryAttempts, subvars, reconnectTimers, pendingRequests>>

\* this.ws?.send(data): WebSocket.send throws while the socket is CONNECTING
SendThrows == ws # 0 /\ sockets[ws] = "connecting"

\* the data goes out on an open socket only
SendTransmits == ws # 0 /\ sockets[ws] = "open"

\* sendAndWait(type, payload, timeout), r its fresh correlation id: the
\* timeout is armed, the entry registered, the message sent; an exception in
\* the executor rejects the promise
sendAndWait(r) ==
  /\ requests[r].state = "none"
  /\ \A q \in 1..(r - 1) : requests[q].state # "none"
  /\ pendingRequests' = pendingRequests \cup {r}
  /\ requests' = [requests EXCEPT ![r] =
                    [state |-> IF SendThrows THEN "rejected" ELSE "pending",
                     by |-> IF SendThrows THEN "throw" ELSE "none",
                     value |-> "none", timer |-> TRUE,
                     sent |-> SendTransmits, first |-> "none"]]
  /\ UNCHANGED <<ws, wsStatus, wsReconnectAttempts, retryAttempts, subvars, sockets,
                 reconnectTimers, wsObs>>

\* the timeout of request r fires: the entry is deleted, the promise rejected
\* (which does nothing to a promise already settled)
requestTimeout(r) ==
  /\ requests[r].timer
  /\ pendingRequests' = pendingRequests \ {r}
  /\ requests' = [requests EXCEPT ![r] =
                    IF @.state = "pending"
                    THEN [@ EXCEPT !.state = "rejected", !.by = "timeout", !.timer = FALSE]
                    ELSE [@ EXCEPT !.timer = FALSE]]
  /\ UNCHANGED <<ws, wsStatus, wsReconnectAttempts, retryAttempts, subvars, sockets,
                 reconnectTimers, wsObs>>

\* the types of the messages the server sends; the client's own events
\* ('connection', 'error', 'reconnect_failed') are not among them
MsgTypes == {"t1", "t2"}

\* the handler functions the application subscribes with
Handlers == {"h1", "h2"}

\* nothing emitted yet
NoDelivery == [type |-> "none", to |-> {}]

\* a routing test that looks at the correlation id alone
MatchesAnyId(c, pending) == c # 0

\* message.correlationId && this.pendingRequests.has(message.correlationId)
MatchesPending(c, pending) == c # 0 /\ c \in pending

\* this.eventHandlers.get(event): the handlers subscribed to the type
Subscribers(eh, t) == eh[t]

\* emit(event, payload) for an incoming message: every handler subscribed to
\* the type is invoked
emit(t) == [type |-> t, to |-> Subscribers(eventHandlers, t)]

\* a removal that empties the set
WithoutAny(hs, h) == {}

\* Set.delete(handler)
Without(hs, h) == hs \ {h}

\* on(event, handler): the handler joins the set of the type (a Set holds a
\* function once); the unsubscribe function returned is the new subscription
on(t, h) ==
  /\ Len(subscriptions) < MaxOn
  /\ eventHandlers' = [eventHandlers EXCEPT ![t] = @ \cup {h}]
  /\ subscriptions' = Append(subscriptions, [type |-> t, handler |-> h, calls |-> 0])
  /\ UNCHANGED <<ws, wsStatus, wsReconnectAttempts, retryAttempts, sockets,
                 reconnectTimers, pendingRequests, requests, wsObs, delivered>>

\* the unsubscribe function returned by the k-th on() is called
unsubscribe(k) ==
  /\ k \in DOMAIN subscriptions
  /\ subscriptions[k].calls < MaxCalls
  /\ eventHandlers' = [eventHandlers EXCEPT ![subscriptions[k].type] =
                          Without(@, subscriptions[k].handler)]
  /\ subscriptions' = [subscriptions EXCEPT ![k].calls = @ + 1]
  /\ UNCHANGED <<ws, wsStatus, wsReconnectAttempts, retryAttempts, sockets,
                 reconnectTimers, pendingRequests, requests, wsObs, delivered>>

\* ws.onmessage of socket s: a message of type t with correlation id c (0:
\* none) and payload v.  A pending request with that id is resolved and its entry
\* deleted; any other message is emitted to the subscribers of its type.
onmessage(s, c, v, t) ==
  /\ sockets[s] = "open"
  /\ c # 0 => requests[c].sent
  /\ IF MatchesPending(c, pendingRequests)
     THEN /\ pendingRequests' = pendingRequests \ {c}
          /\ UNCHANGED delivered
          /\ requests' = [requests EXCEPT ![c] =
                 [state |-> IF @.state = "pending" THEN "resolved" ELSE @.state,
                  by |-> IF @.state = "pending" THEN "reply" ELSE @.by,
                  value |-> IF @.state = "pending" THEN v ELSE @.value,
                  timer |-> FALSE, sent |-> @.sent,
                  first |-> IF @.first = "none" THEN v ELSE @.first]]
     ELSE /\ delivered' = emit(t)
          /\ UNCHANGED <<pendingRequests, requests>>
  /\ UNCHANGED <<ws, wsStatus, wsReconnectAttempts, retryAttempts, eventHandlers,
                 subscriptions, sockets, reconnectTimers, wsObs>>

\* the client after construction; R the configured retryAttempts values
WSInit(R) ==
  /\ ws = 0
  /\ wsStatus = "disconnected"
  /\ wsReconnectAttempts = 0
  /\ retryAttempts \in R
  /\ sockets = [s \in 1..MaxSockets |-> "none"]
  /\ reconnectTimers = 0
  /\ pendingRequests = {}
  /\ requests = [r \in 1..MaxRequests |-> NoRequest]
  /\ wsObs = [tangled |-> FALSE, opened |-> FALSE, autoAttempts |-> 0,
              failedEmits |-> 0, disconnectRequested |-> FALSE]
  /\ eventHandlers = [t \in MsgTypes |-> {}]
  /\ subscriptions = <<>>
  /\ delivered = NoDelivery


(* ------------------------ SyncManager.syncEntity ---------------------- *)
Strategies == {"local", "remote", "merge", "manual"}

NoStrategy == [strategy |-> "none", resolver |-> FALSE]

\* Date.now() at the return of syncEntity: later than every timestamp
Now == MaxTime + 1

\* no entity: null, or a variable not assigned yet
NoEntity == [id |-> 0, updatedAt |-> 0, syncedAt |-> 0, isLocal |-> FALSE,
             data |-> "none", saved |-> FALSE]

\* the local copies and the remote versions of the entity handed to syncEntity;
\* syncedAt 0 stands for a missing syncedAt
LocalEntities ==
  {[id |-> 1, updatedAt |-> u, syncedAt |-> y, isLocal |-> FALSE, data |-> "L", saved |-> FALSE] :
     u \in 1..MaxTime, y \in 0..MaxTime}

RemoteEntities ==
  {[id |-> 1, updatedAt |-> u, syncedAt |-> 0, isLocal |-> FALSE, data |-> "R", saved |-> TRUE] :
     u \in 1..MaxTime}

\* the resolver the application registers with strategy 'merge'
resolver(local, remote) ==
  [local EXCEPT !.data = "M",
                !.updatedAt = IF local.updatedAt > remote.updatedAt
                              THEN local.updatedAt ELSE remote.updatedAt]

\* what saveRemote(entity) resolves with: the entity as the remote stored it
saveRemote(e) == [e EXCEPT !.saved = TRUE]

\* a conflict test that looks at the remote version only
IsConflictRemoteOnly(local, remote) == remote.updatedAt > local.syncedAt

\* the conflict test of syncEntity
IsConflict(local, remote) ==
  remote.updatedAt > local.syncedAt /\ local.updatedAt > local.syncedAt

\* a resolution that always keeps the local copy
resolveConflictKeepLocal(local, remote, st) == local

\* resolveConflict(local, remote, strategy)
resolveConflict(local, remote, st) ==
  IF st.strategy = "none"
  THEN IF local.updatedAt > remote.updatedAt THEN local ELSE remote
  ELSE IF st.strategy = "local" THEN local
  ELSE IF st.strategy = "remote" THEN remote
  ELSE IF st.strategy = "merge"
       THEN IF st.resolver THEN resolver(local, remote) ELSE local
  ELSE IF st.strategy = "manual" THEN [local EXCEPT !.isLocal = TRUE]
  ELSE local

\* a push test that also pushes on equal timestamps
LocalIsNewerOrSame(local, remote) == local.updatedAt >= remote.updatedAt

\* the push test of syncEntity when there is no conflict
LocalIsNewer(local, remote) == local.updatedAt > remote.updatedAt

\* one call of syncEntity; trace lists, in order, the callbacks the call has
\* invoked and the events it has emitted
IdleEntity == [pc |-> "idle", local |-> NoEntity, remote |-> NoEntity,
               conflict |-> FALSE, used |-> NoStrategy, pushed |-> NoEntity,
               saveOk |-> FALSE, result |-> NoEntity, trace |-> <<>>]

\* a fallback that hands the local copy back as it came
keepLocalUntagged(local) == local

\* { ...local, isLocal: true }: the result when offline and in the catch block
keepLocal(local) == [local EXCEPT !.isLocal = TRUE]

\* setConflictStrategy(entityType, resolution)
setConflictStrategy(st, res) ==
  /\ conflictStrategy' = [strategy |-> st, resolver |-> res]
  /\ UNCHANGED entRun

\* syncEntity(entityType, local, fetchRemote, saveRemote) up to its first await
syncEntity(local) ==
  /\ entRun.pc = "idle"
  /\ entRun' = IF ~status.isOnline
               THEN [IdleEntity EXCEPT !.pc = "done", !.local = local,
                                       !.result = keepLocal(local)]
               ELSE [IdleEntity EXCEPT !.pc = "fetch", !.local = local,
                                       !.trace = <<"fetchRemote">>]
  /\ UNCHANGED conflictStrategy

\* fetchRemote() rejects: the catch block
fetchRejects ==
  /\ entRun.pc = "fetch"
  /\ entRun' = [entRun EXCEPT !.pc = "done", !.result = keepLocal(entRun.local)]
  /\ UNCHANGED conflictStrategy

\* fetchRemote() resolves with remote (NoEntity: null): syncEntity runs on to
\* its call of saveRemote, or returns the remote version
fetchResolves(remote) ==
  /\ entRun.pc = "fetch"
  /\ LET local == entRun.local
     IN  entRun' =
           IF remote = NoEntity
           THEN [entRun EXCEPT !.pc = "save", !.pushed = local,
                               !.trace = Append(@, "saveRemote")]
           ELSE IF IsConflict(local, remote)
           THEN [entRun EXCEPT !.pc = "save", !.remote = remote, !.conflict = TRUE,
                               !.used = conflictStrategy,
                               !.pushed = resolveConflict(local, remote, conflictStrategy),
                               !.trace = @ \o <<"conflict_detected", "saveRemote">>]
           ELSE IF LocalIsNewer(local, remote)
           THEN [entRun EXCEPT !.pc = "save", !.remote = remote, !.pushed = local,
                               !.trace = Append(@, "saveRemote")]
           ELSE [entRun EXCEPT !.pc = "done", !.remote = remote,
                               !.result = [remote EXCEPT !.syncedAt = Now,
                                                         !.isLocal = FALSE]]
  /\ UNCHANGED conflictStrategy

\* saveRemote(entity) settles: the saved entity tagged as synced, or the catch block
saveSettles(ok) ==
  /\ entRun.pc = "save"
  /\ entRun' = [entRun EXCEPT
                  !.pc = "done", !.saveOk = ok,
                  !.result = IF ok
                             THEN [saveRemote(entRun.pushed) EXCEPT !.syncedAt = Now,
                                                                    !.isLocal = FALSE]
                             ELSE keepLocal(entRun.local),
                  !.trace = IF ok /\ ~entRun.conflict
                            THEN Append(@, "entity_synced") ELSE @]
  /\ UNCHANGED conflictStrategy

\* the caller has taken the result
syncEntityReturns ==
  /\ entRun.pc = "done"
  /\ entRun' = IdleEntity
  /\ UNCHANGED conflictStrategy

EInit ==
  /\ conflictStrategy = NoStrategy
  /\ entRun = IdleEntity

(* ---------------------------- CacheManager ---------------------------- *)
CacheKeys == {"a", "b", "c"}
\* no entry: what Map.get and storage.get give for an absent key; get()
\* returns null for it
NoEntry == [key |-> "none", data |-> "null", timestamp |-> 0, ttl |-> 0]

\* Map.get(key)
MapGet(m, k) ==
  IF \E i \in DOMAIN m : m[i].key = k
  THEN m[CHOOSE i \in DOMAIN m : m[i].key = k]
  ELSE NoEntry

\* Map.set(key, entry): a key already present keeps its place in the order
MapSet(m, k, e) ==
  IF \E i \in DOMAIN m : m[i].key = k
  THEN [i \in DOMAIN m |-> IF m[i].key = k THEN e ELSE m[i]]
  ELSE Append(m, e)

\* Map.delete(key)
MapDelete(m, k) == SelectSeq(m, LAMBDA e : e.key # k)

\* isExpired(entry): Date.now() - entry.timestamp > entry.ttl
isExpired(entry) == clock - entry.timestamp > entry.ttl

\* a choice of the entry written last
NewestKey(m) ==
  m[CHOOSE i \in DOMAIN m :
      /\ \A j \in DOMAIN m : m[j].timestamp <= m[i].timestamp
      /\ \A j \in DOMAIN m : j < i => m[j].timestamp < m[i].timestamp].key

\* the loop of evictOldest: the first entry, in the order of the Map, whose
\* timestamp is the smallest (the comparison is strict)
OldestKey(m) ==
  m[CHOOSE i \in DOMAIN m :
      /\ \A j \in DOMAIN m : m[i].timestamp <= m[j].timestamp
      /\ \A j \in DOMAIN m : j < i => m[i].timestamp < m[j].timestamp].key

\* evictOldest()
evictOldest(m) == IF m = <<>> THEN m ELSE MapDelete(m, OldestKey(m))

\* the entry get(key) finds: the memory entry if it has not expired, else the
\* stored one if storage.get resolves (ok) and it has not expired
Found(k, ok) ==
  LET mem == MapGet(memoryCache, k)
      sto == cacheStored[k]
  IN  IF mem # NoEntry /\ ~isExpired(mem) THEN mem
      ELSE IF ok /\ sto # NoEntry /\ ~isExpired(sto) THEN sto
      ELSE NoEntry

\* a get whose promotion stamps the entry with the time of the read
RestoredRefreshed(k, ok) ==
  LET mem == MapGet(memoryCache, k)
  IN  IF (mem # NoEntry /\ ~isExpired(mem)) \/ Found(k, ok) = NoEntry
      THEN memoryCache
      ELSE MapSet(memoryCache, k, [Found(k, ok) EXCEPT !.timestamp = clock])

\* the memory cache after get(key): an entry found in the store is restored
Restored(k, ok) ==
  LET mem == MapGet(memoryCache, k)
  IN  IF (mem # NoEntry /\ ~isExpired(mem)) \/ Found(k, ok) = NoEntry
      THEN memoryCache
      ELSE MapSet(memoryCache, k, Found(k, ok))

\* no get() is suspended
NoGet == [active |-> FALSE, key |-> "none", stored |-> NoEntry]

\* get(key) up to its await: the memory cache has no unexpired entry of the
\* key, storage.get is called and answers with what the store holds now
\* (ok) or throws
getReads(k, ok) ==
  LET mem == MapGet(memoryCache, k)
  IN  /\ ~getWait.active
      /\ ~(mem # NoEntry /\ ~isExpired(mem))
      /\ getWait' = [active |-> TRUE, key |-> k,
                     stored |-> IF ok THEN cacheStored[k] ELSE NoEntry]
      /\ UNCHANGED <<memoryCache, cleanupTimer, maxEntries, cacheStored, clock,
                     written, returned>>

\* get(key) after its await: the entry that was read is restored to the
\* memory cache and returned if it has not expired by now
getResumes ==
  LET sto == getWait.stored
      found == IF sto # NoEntry /\ ~isExpired(sto) THEN sto ELSE NoEntry
  IN  /\ getWait.active
      /\ memoryCache' = IF found = NoEntry THEN memoryCache
                        ELSE MapSet(memoryCache, getWait.key, found)
      /\ returned' = [op |-> "get", key |-> getWait.key, data |-> found.data]
      /\ getWait' = NoGet
      /\ UNCHANGED <<cleanupTimer, maxEntries, cacheStored, clock, written>>

\* get(key); ok: storage.get resolves rather than throws
get(k, ok) ==
  /\ memoryCache' = Restored(k, ok)
  /\ returned' = [op |-> "get", key |-> k, data |-> Found(k, ok).data]
  /\ UNCHANGED <<cleanupTimer, maxEntries, cacheStored, clock, written>>

\* has(key): get(key) !== null
has(k, ok) ==
  /\ memoryCache' = Restored(k, ok)
  /\ returned' = [op |-> "has", key |-> k,
                  data |-> IF Found(k, ok).data # "null" THEN "true" ELSE "false"]
  /\ UNCHANGED <<cleanupTimer, maxEntries, cacheStored, clock, written>>

\* set(key, data, ttl); ok: storage.set resolves rather than throws
set(k, v, ttl, ok) ==
  LET entry == [key |-> k, data |-> v, timestamp |-> clock, ttl |-> ttl]
      kept == IF Len(memoryCache) >= maxEntries
              THEN evictOldest(memoryCache)
              ELSE memoryCache
  IN  /\ memoryCache' = MapSet(kept, k, entry)
      /\ cacheStored' = IF ok THEN [cacheStored EXCEPT ![k] = entry] ELSE cacheStored
      /\ written' = [written EXCEPT ![k] = entry]
      /\ UNCHANGED <<cleanupTimer, maxEntries, clock, returned>>

\* delete(key); ok: storage.remove resolves rather than throws
delete(k, ok) ==
  /\ memoryCache' = MapDelete(memoryCache, k)
  /\ cacheStored' = IF ok THEN [cacheStored EXCEPT ![k] = NoEntry] ELSE cacheStored
  /\ written' = [written EXCEPT ![k] = NoEntry]
  /\ UNCHANGED <<cleanupTimer, maxEntries, clock, returned>>

\* clear(); R: the keys whose storage.remove is carried out (none when
\* storage.keys throws)
clear(R) ==
  /\ memoryCache' = <<>>
  /\ cacheStored' = [k \in CacheKeys |-> IF k \in R THEN NoEntry ELSE cacheStored[k]]
  /\ written' = [k \in CacheKeys |-> NoEntry]
  /\ UNCHANGED <<cleanupTimer, maxEntries, clock, returned>>

\* the callback of the interval of startCleanup: expired entries leave the
\* memory cache
cleanup ==
  /\ cleanupTimer
  /\ memoryCache' = SelectSeq(memoryCache, LAMBDA e : ~isExpired(e))
  /\ UNCHANGED <<cleanupTimer, maxEntries, cacheStored, clock, written, returned>>

\* dispose() of the CacheManager
cacheDispose ==
  /\ cleanupTimer' = FALSE
  /\ memoryCache' = <<>>
  /\ UNCHANGED <<maxEntries, cacheStored, clock, written, returned>>

\* time passes
tick ==
  /\ clock < MaxClock
  /\ clock' = clock + 1
  /\ UNCHANGED <<memoryCache, cleanupTimer, maxEntries, cacheStored, written, returned>>

\* the CacheManager after construction, M the configured maxEntries values
CInit(M) ==
  /\ memoryCache = <<>>
  /\ cleanupTimer = TRUE
  /\ maxEntries \in M
  /\ cacheStored = [k \in CacheKeys |-> NoEntry]
  /\ clock = 0
  /\ written = [k \in CacheKeys |-> NoEntry]
  /\ returned = [op |-> "none", key |-> "none", data |-> "null"]
  /\ getWait = NoGet

\* a CacheManager that is not used
CIdle == CInit({MaxEntriesCfg})

(* ------------------ OfflineQueue of the mobile app -------------------- *)
\* the processQueue() calls that can be in flight together
MaxMobilePasses == 2
\* the add() calls, each with an item of its own
MaxAdds == 2
MAX_RETRIES == 3

MPasses == 1..MaxMobilePasses
MAdds == 1..MaxAdds

IdleMPass == [pc |-> "idle", queue |-> <<>>, idx |-> 0, remaining |-> <<>>]
IdleAdd == [pc |-> "idle", queue |-> <<>>, id |-> 0]

\* the ids of the items of a queue
ItemIds(q) == {q[i].id : i \in DOMAIN q}

\* getQueue(); ok: AsyncStorage.getItem resolves rather than throws
getQueue(ok) == IF ok THEN mobileStored ELSE <<>>

\* add(item) is called by caller a and waits for getQueue()
add(a) ==
  /\ madds[a].pc = "idle"
  /\ a \notin madded
  /\ madds' = [madds EXCEPT ![a] = [pc |-> "read", queue |-> <<>>, id |-> a]]
  /\ UNCHANGED <<mobileStored, isProcessing, isConnected, mpasses, posted, discarded,
                 madded>>

\* getQueue() resolves in add: the new item is pushed onto the queue that was
\* read, and saveQueue is called with it
addReads(a, ok) ==
  /\ madds[a].pc = "read"
  /\ madds' = [madds EXCEPT ![a].pc = "save",
                            ![a].queue = Append(getQueue(ok),
                                                [id |-> madds[a].id, retries |-> 0])]
  /\ UNCHANGED <<mobileStored, isProcessing, isConnected, mpasses, posted, discarded,
                 madded>>

\* saveQueue of add writes the store (ok) or throws, which add catches
addSaves(a, ok) ==
  /\ madds[a].pc = "save"
  /\ mobileStored' = IF ok THEN madds[a].queue ELSE mobileStored
  /\ madded' = IF ok THEN madded \cup {madds[a].id} ELSE madded
  /\ madds' = [madds EXCEPT ![a] = IdleAdd]
  /\ UNCHANGED <<isProcessing, isConnected, mpasses, posted, discarded>>

\* processQueue() is called as call p: it returns at once while isProcessing
\* is set, else it waits for NetInfo.fetch()
mobileProcessQueue(p) ==
  /\ mpasses[p].pc = "idle"
  /\ mpasses' = IF isProcessing THEN mpasses ELSE [mpasses EXCEPT ![p].pc = "fetch"]
  /\ UNCHANGED <<mobileStored, isProcessing, isConnected, madds, posted, discarded,
                 madded>>

\* the listener the constructor gives to NetInfo: the connectivity changes to
\* c, and processQueue() is called if the device is connected
netInfoEvent(c, p) ==
  /\ isConnected' = c
  /\ IF c
     THEN /\ mpasses[p].pc = "idle"
          /\ mpasses' = IF isProcessing THEN mpasses
                        ELSE [mpasses EXCEPT ![p].pc = "fetch"]
     ELSE UNCHANGED mpasses
  /\ UNCHANGED <<mobileStored, isProcessing, madds, posted, discarded, madded>>

\* NetInfo.fetch() resolves: without a connection the call returns, else it
\* sets isProcessing and waits for getQueue()
netInfoFetched(p) ==
  /\ mpasses[p].pc = "fetch"
  /\ IF isConnected
     THEN isProcessing' = TRUE /\ mpasses' = [mpasses EXCEPT ![p].pc = "read"]
     ELSE isProcessing' = isProcessing /\ mpasses' = [mpasses EXCEPT ![p] = IdleMPass]
  /\ UNCHANGED <<mobileStored, isConnected, madds, posted, discarded, madded>>

\* getQueue() resolves in processQueue: the loop over its items begins
queueRead(p, ok) ==
  /\ mpasses[p].pc = "read"
  /\ mpasses' = [mpasses EXCEPT ![p] = [pc |-> "item", queue |-> getQueue(ok),
                                        idx |-> 1, remaining |-> <<>>]]
  /\ UNCHANGED <<mobileStored, isProcessing, isConnected, madds, posted, discarded,
                 madded>>

\* one turn of the loop: processItem(item) resolves (ok), or it throws, the
\* item's retries go up and it is kept below MAX_RETRIES
processItem(p, ok) ==
  LET r == mpasses[p]
      item == r.queue[r.idx]
      retried == [item EXCEPT !.retries = @ + 1]
  IN  /\ r.pc = "item" /\ r.idx <= Len(r.queue)
      /\ posted' = IF ok THEN [posted EXCEPT ![item.id] = @ + 1] ELSE posted
      /\ discarded' = IF ~ok /\ retried.retries >= MAX_RETRIES
                      THEN discarded \cup {item.id} ELSE discarded
      /\ mpasses' = [mpasses EXCEPT
                       ![p].idx = @ + 1,
                       ![p].remaining =
                          IF ~ok /\ retried.retries < MAX_RETRIES
                          THEN Append(@, retried) ELSE @]
      /\ UNCHANGED <<mobileStored, isProcessing, isConnected, madds, madded>>

\* the loop is over: saveQueue(remaining) writes the store (ok) or throws, and
\* the finally clause resets isProcessing
saveRemaining(p, ok) ==
  LET r == mpasses[p]
  IN  /\ r.pc = "item" /\ r.idx > Len(r.queue)
      /\ mobileStored' = IF ok THEN r.remaining ELSE mobileStored
      /\ isProcessing' = FALSE
      /\ mpasses' = [mpasses EXCEPT ![p] = IdleMPass]
      /\ UNCHANGED <<isConnected, madds, posted, discarded, madded>>

\* the queue of the mobile app after construction, AsyncStorage empty
MInit ==
  /\ mobileStored = <<>>
  /\ isProcessing = FALSE
  /\ isConnected \in BOOLEAN
  /\ mpasses = [p \in MPasses |-> IdleMPass]
  /\ madds = [a \in MAdds |-> IdleAdd]
  /\ posted = [i \in MAdds |-> 0]
  /\ discarded = {}
  /\ madded = {}

\* a mobile queue that is not used
MIdle == MInit /\ isConnected

(* --------------------------- specifications --------------------------- *)
\* The queue after construction and set-up: H are the types given a handler by
\* registerHandler, R the configured maxRetries values, n the number of
\* enqueue calls the application makes that find room, S the configured
\* maxQueueSize values.
QInitSized(H, R, n, S) ==
  /\ queue = <<>>
  /\ handlers = H
  /\ processing = FALSE
  /\ online = TRUE
  /\ syncTimer = 0
  /\ disposed = FALSE
  /\ maxRetries \in R
  /\ maxQueueSize \in S
  /\ stored = [present |-> FALSE, val |-> <<>>]
  /\ passes = [p \in 1..MaxPasses |-> IdlePass]
  /\ enqWait = {}
  /\ retryWait = FALSE
  /\ loadWait = NoLoad
  /\ nextId = 1
  /\ budget = n
  /\ rejected = 0
  /\ loads = 0
  /\ succeeded = {}
  /\ fails = [i \in Ids |-> 0]

\* the same with the configured maxQueueSize
QInit(H, R, n) == QInitSized(H, R, n, {MaxQueueSize})

\* a step of the queue used on its own
QueueStep(A) == A /\ UNCHANGED <<smvars, wsvars, evars, cvars, mvars>>

QPass ==
  \E p \in 1..MaxPasses :
    \/ QueueStep(InvokeHandler(p))
    \/ \E ok \in BOOLEAN, msg \in ErrMsgs : QueueStep(HandlerSettles(p, ok, msg))
    \/ QueueStep(LoopContinues(p))
    \/ QueueStep(PassEnds(p))

QFeed ==
  \/ \E t \in ActionTypes : QueueStep(enqueue(t))
  \/ \E i \in Ids : QueueStep(enqueueReturns(i))
  \/ \E b \in BOOLEAN : QueueStep(setOnline(b))
  \/ QueueStep(RetryTimerFires)

QAdmin ==
  \/ QueueStep(clearFailed)
  \/ QueueStep(clearAll)
  \/ QueueStep(retryFailed)
  \/ QueueStep(retryFailedReturns)

QLoad ==
  \/ \E ok \in BOOLEAN : QueueStep(loadFromStorage(ok))
  \/ QueueStep(loadSettles)

\* the queue in use, every operation but initialize()
Init == QInit({"X"}, {1}, MaxActions) /\ SMInit /\ WSInit({MaxRetryAttempts}) /\ EInit /\ CIdle /\ MIdle

Next == QPass \/ QFeed \/ QAdmin

Spec == Init /\ [][Next]_vars

\* enqueueing and replay alone, with one more action and two attempts per
\* action; the types of the actions alternate
InitOrder == QInit(ActionTypes, {2}, MaxActions + 1) /\ SMInit /\ WSInit({MaxRetryAttempts}) /\ EInit /\ CIdle /\ MIdle

NextOrder ==
  \/ QPass
  \/ QueueStep(enqueue(IF nextId % 2 = 1 THEN "X" ELSE "Y"))
  \/ \E i \in Ids : QueueStep(enqueueReturns(i))
  \/ \E b \in BOOLEAN : QueueStep(setOnline(b))
  \/ QueueStep(RetryTimerFires)

SpecOrder == InitOrder /\ [][NextOrder]_vars

\* the same with a handler for 'X' only: every second action has none
InitBare == QInit({"X"}, {2}, MaxActions + 1) /\ SMInit /\ WSInit({MaxRetryAttempts}) /\ EInit /\ CIdle /\ MIdle

NextBare == NextOrder

SpecBare == InitBare /\ [][NextBare]_vars

\* retries under every configured maxRetries: actions with a handler, the
\* queue online throughout
InitRetry == QInit({"X"}, 0..MaxRetriesCfg, MaxActions) /\ SMInit /\ WSInit({MaxRetryAttempts}) /\ EInit /\ CIdle /\ MIdle

NextRetry ==
  \/ QPass
  \/ \E t \in handlers : QueueStep(enqueue(t))
  \/ \E i \in Ids : QueueStep(enqueueReturns(i))
  \/ QueueStep(RetryTimerFires)
  \/ QueueStep(clearFailed)
  \/ QueueStep(clearAll)
  \/ QueueStep(retryFailed)
  \/ QueueStep(retryFailedReturns)

SpecRetry == InitRetry /\ [][NextRetry]_vars

\* retryFailed() on a queue that goes offline and online
InitAgain == QInit({"X"}, {1}, MaxActions) /\ SMInit /\ WSInit({MaxRetryAttempts}) /\ EInit /\ CIdle /\ MIdle

NextAgain ==
  \/ QPass
  \/ \E t \in handlers : QueueStep(enqueue(t))
  \/ \E i \in Ids : QueueStep(enqueueReturns(i))
  \/ \E b \in BOOLEAN : QueueStep(setOnline(b))
  \/ QueueStep(RetryTimerFires)
  \/ QueueStep(retryFailed)
  \/ QueueStep(retryFailedReturns)

SpecAgain == InitAgain /\ [][NextAgain]_vars

\* the queue filled to its capacity, for every capacity up to MaxQueueSize
InitFull ==
  /\ QInitSized({"X"}, {1}, MaxActions + 1, 1..MaxQueueSize)
  /\ SMInit /\ WSInit({MaxRetryAttempts}) /\ EInit /\ CIdle /\ MIdle

NextFull ==
  \/ QPass
  \/ \E t \in handlers : QueueStep(enqueue(t))
  \/ QueueStep(enqueueThrows)
  \/ \E i \in Ids : QueueStep(enqueueReturns(i))
  \/ \E b \in BOOLEAN : QueueStep(setOnline(b))
  \/ QueueStep(RetryTimerFires)

SpecFull == InitFull /\ [][NextFull]_vars

\* the queue with initialize() racing the other operations
InitLoad == QInit({"X"}, {1}, MaxActions) /\ SMInit /\ WSInit({MaxRetryAttempts}) /\ EInit /\ CIdle /\ MIdle

NextInit ==
  \/ QPass
  \/ QLoad
  \/ \E t \in handlers : QueueStep(enqueue(t))
  \/ \E i \in Ids : QueueStep(enqueueReturns(i))
  \/ QueueStep(RetryTimerFires)
  \/ QueueStep(clearFailed)
  \/ QueueStep(clearAll)

SpecInit == InitLoad /\ [][NextInit]_vars

\* the queue across a restart: the new object is hydrated by an initialize()
\* that the application awaits before it uses the queue
NewObject ==
  /\ queue = <<>>
  /\ ActivePasses = {}
  /\ enqWait = {}
  /\ syncTimer = 0

Hydrated(A) == ~loadWait.active /\ A

InitRestart == QInit({"X"}, {MaxRetriesCfg}, MaxActions) /\ SMInit /\ WSInit({MaxRetryAttempts}) /\ EInit /\ CIdle /\ MIdle

NextRestart ==
  \/ \E p \in 1..MaxPasses : QueueStep(Hydrated(InvokeHandler(p)))
  \/ \E p \in 1..MaxPasses, ok \in BOOLEAN, msg \in ErrMsgs :
       QueueStep(Hydrated(HandlerSettles(p, ok, msg)))
  \/ \E p \in 1..MaxPasses : QueueStep(Hydrated(LoopContinues(p)))
  \/ \E p \in 1..MaxPasses : QueueStep(Hydrated(PassEnds(p)))
  \/ QueueStep(Hydrated(enqueue("X")))
  \/ \E i \in Ids : QueueStep(Hydrated(enqueueReturns(i)))
  \/ QueueStep(Hydrated(RetryTimerFires))
  \/ QueueStep(Hydrated(restart))
  \/ QueueStep(NewObject /\ loadFromStorage(TRUE))
  \/ QueueStep(loadSettles)

SpecRestart == InitRestart /\ [][NextRestart]_vars

\* disposal: the application enqueues and calls dispose() at any time, after
\* which it makes no further call; what is in flight goes on
InitDispose == QInit({"X"}, {MaxRetriesCfg}, MaxActions) /\ SMInit /\ WSInit({MaxRetryAttempts}) /\ EInit /\ CIdle /\ MIdle

NextDispose ==
  \/ QPass
  \/ QueueStep(~disposed /\ enqueue("X"))
  \/ \E i \in Ids : QueueStep(enqueueReturns(i))
  \/ QueueStep(RetryTimerFires)
  \/ QueueStep(dispose)

SpecDispose == InitDispose /\ [][NextDispose]_vars

\* a step of the queue under a SyncManager; nothing happens between
\* SyncManager.setOnline's call of queue.setOnline and its call of this.sync()
UnderSync(A) == ~syncDue /\ A /\ UNCHANGED <<smvars, wsvars, evars, cvars, mvars>>

\* a step of the SyncManager
SyncStep(A) == ~syncDue /\ A /\ UNCHANGED <<wsvars, evars, cvars, mvars>>

\* setOnline's call of this.sync()
DueSync == syncDue /\ sync /\ UNCHANGED <<wsvars, evars, cvars, mvars>>

SPass ==
  \E p \in 1..MaxPasses :
    \/ UnderSync(InvokeHandler(p))
    \/ \E ok \in BOOLEAN, msg \in ErrMsgs : UnderSync(HandlerSettles(p, ok, msg))
    \/ UnderSync(LoopContinues(p))
    \/ SyncStep(PassEnds(p) /\ syncResumes(p))

SFeed ==
  \/ \E t \in ActionTypes : UnderSync(enqueue(t))
  \/ \E i \in Ids : UnderSync(enqueueReturns(i))
  \/ UnderSync(RetryTimerFires)

SSync ==
  \/ \E b \in BOOLEAN : SyncStep(smSetOnline(b))
  \/ \E b \in BOOLEAN : SyncStep(probeSettles(b))
  \/ SyncStep(sync)
  \/ DueSync
  \/ SyncStep(syncSettles)
  \/ SyncStep(getStatus)

\* the queue driven through a SyncManager
InitSync == QInit({"X"}, {1}, MaxActions) /\ SMInit /\ WSInit({MaxRetryAttempts}) /\ EInit /\ CIdle /\ MIdle

NextSync == SPass \/ SFeed \/ SSync

SpecSync == InitSync /\ [][NextSync]_vars

\* the SyncManager over a queue that is given fewer actions
InitPair == QInit({"X"}, {1}, MaxActions - 1) /\ SMInit /\ WSInit({MaxRetryAttempts}) /\ EInit /\ CIdle /\ MIdle

NextPair == SPass \/ SFeed \/ SSync

SpecPair == InitPair /\ [][NextPair]_vars

\* a step of the websocket client
WsStep(A) == A /\ UNCHANGED <<qvars, smvars, evars, cvars, mvars>>

WConn ==
  \/ WsStep(appConnect)
  \/ WsStep(disconnect)
  \/ WsStep(reconnectTimeout)
  \/ \E s \in 1..MaxSockets : WsStep(onopen(s))
  \/ \E s \in 1..MaxSockets : WsStep(onerror(s))
  \/ \E s \in 1..MaxSockets : WsStep(onclose(s))

WReq ==
  \/ \E r \in 1..MaxRequests : WsStep(sendAndWait(r))
  \/ \E r \in 1..MaxRequests : WsStep(requestTimeout(r))
  \/ \E s \in 1..MaxSockets, c \in 0..MaxRequests, v \in Payloads :
       WsStep(onmessage(s, c, v, "t1"))

\* the websocket client under every configured retryAttempts
InitWs == QInit({"X"}, {1}, 0) /\ SMInit /\ WSInit(0..MaxRetryAttempts) /\ EInit /\ CIdle /\ MIdle

NextWs == WConn

SpecWs == InitWs /\ [][NextWs]_vars

\* requests over the connection, one reconnection attempt configured
InitReq == QInit({"X"}, {1}, 0) /\ SMInit /\ WSInit({1}) /\ EInit /\ CIdle /\ MIdle

NextReq == WConn \/ WReq

SpecReq == InitReq /\ [][NextReq]_vars

\* requests over a connection that is lost by a close or error event and
\* re-established, under every configured retryAttempts; the application
\* calls connect() when the status is 'disconnected' only
InitLoss == QInit({"X"}, {1}, 0) /\ SMInit /\ WSInit(0..MaxRetryAttempts) /\ EInit /\ CIdle /\ MIdle

NextLoss ==
  \/ WsStep(wsStatus = "disconnected" /\ appConnect)
  \/ WsStep(reconnectTimeout)
  \/ \E s \in 1..MaxSockets : WsStep(onopen(s))
  \/ \E s \in 1..MaxSockets : WsStep(onerror(s))
  \/ \E s \in 1..MaxSockets : WsStep(onclose(s))
  \/ WReq

SpecLoss == InitLoss /\ [][NextLoss]_vars

\* subscribers: on(), the unsubscribe functions and incoming messages over
\* one connection
WSub ==
  \/ \E t \in MsgTypes, h \in Handlers : WsStep(on(t, h))
  \/ \E k \in 1..MaxOn : WsStep(unsubscribe(k))

InitSub == QInit({"X"}, {1}, 0) /\ SMInit /\ WSInit({0}) /\ EInit /\ CIdle /\ MIdle

NextSub ==
  \/ WsStep(wsStatus = "disconnected" /\ ws = 0 /\ appConnect)
  \/ \E s \in 1..MaxSockets : WsStep(onopen(s))
  \/ WSub
  \/ \E s \in 1..MaxSockets, t \in MsgTypes : WsStep(onmessage(s, 0, "a", t))

SpecSub == InitSub /\ [][NextSub]_vars

\* routing of incoming messages: requests and subscribers over one
\* connection, replies arriving before and after the timeout
InitRoute == QInit({"X"}, {1}, 0) /\ SMInit /\ WSInit({0}) /\ EInit /\ CIdle /\ MIdle

NextRoute ==
  \/ WsStep(wsStatus = "disconnected" /\ ws = 0 /\ appConnect)
  \/ \E s \in 1..MaxSockets : WsStep(onopen(s))
  \/ \E t \in MsgTypes : WsStep(on(t, IF t = "t1" THEN "h1" ELSE "h2"))
  \/ \E r \in 1..MaxRequests : WsStep(sendAndWait(r))
  \/ \E r \in 1..MaxRequests : WsStep(requestTimeout(r))
  \/ \E s \in 1..MaxSockets, c \in 0..MaxRequests, t \in MsgTypes :
       WsStep(onmessage(s, c, "a", t))

SpecRoute == InitRoute /\ [][NextRoute]_vars

\* replay without outside help: the queue stays online, the application
\* only enqueues, and a handler rejects only while the rejection leaves the
\* action a retry (it fails fewer than maxRetries times, then succeeds)
HandlerSettlesInTime(p) ==
  \E ok \in BOOLEAN, msg \in ErrMsgs :
    /\ ok \/ Current(p).retryCount + 1 < Current(p).maxRetries
    /\ QueueStep(HandlerSettles(p, ok, msg))

InitLive ==
  QInit({"X"}, 1..MaxRetriesCfg, MaxActions) /\ SMInit /\ WSInit({MaxRetryAttempts})
    /\ EInit /\ CIdle /\ MIdle

NextLive ==
  \/ \E p \in 1..MaxPasses : QueueStep(InvokeHandler(p))
  \/ \E p \in 1..MaxPasses : HandlerSettlesInTime(p)
  \/ \E p \in 1..MaxPasses : QueueStep(LoopContinues(p))
  \/ \E p \in 1..MaxPasses : QueueStep(PassEnds(p))
  \/ QueueStep(enqueue("X"))
  \/ \E i \in Ids : QueueStep(enqueueReturns(i))
  \/ QueueStep(RetryTimerFires)

\* every await of a pass and of enqueue settles (saveToStorage swallows the
\* errors of the store, the handler settles), and an armed timeout fires
FairLive ==
  /\ WF_vars(\E p \in 1..MaxPasses : QueueStep(InvokeHandler(p)))
  /\ WF_vars(\E p \in 1..MaxPasses : HandlerSettlesInTime(p))
  /\ WF_vars(\E p \in 1..MaxPasses : QueueStep(LoopContinues(p)))
  /\ WF_vars(\E p \in 1..MaxPasses : QueueStep(PassEnds(p)))
  /\ WF_vars(\E i \in Ids : QueueStep(enqueueReturns(i)))
  /\ WF_vars(QueueStep(RetryTimerFires))

SpecLive == InitLive /\ [][NextLive]_vars /\ FairLive

\* a step of the CacheManager
CacheStep(A) == A /\ UNCHANGED <<qvars, smvars, wsvars, evars, getWait, mvars>>

\* a step of a get() that is suspended at its storage read
GetStep(A) == A /\ UNCHANGED <<qvars, smvars, wsvars, evars, mvars>>

\* eviction: three keys written into a cache of one or two entries, read
\* back, restored from the store (whose reads may fail, while it takes
\* every write), swept
InitEvict ==
  QInit({"X"}, {1}, 0) /\ SMInit /\ WSInit({0}) /\ EInit /\ CInit(1..MaxEntriesCfg) /\ MIdle

NextEvict ==
  \/ \E k \in CacheKeys : CacheStep(set(k, "v1", 2, TRUE))
  \/ \E k \in CacheKeys, ok \in BOOLEAN : CacheStep(get(k, ok))
  \/ CacheStep(cleanup)
  \/ CacheStep(tick)

SpecEvict == InitEvict /\ [][NextEvict]_vars

\* the set() calls of the expiry scenario: a long-lived and a short-lived value
Writes == {[data |-> "v1", ttl |-> 2], [data |-> "v2", ttl |-> 1]}

\* expiry: two keys, a long-lived and a short-lived value in a cache of one
\* entry, with every method of the CacheManager
InitTtl == QInit({"X"}, {1}, 0) /\ SMInit /\ WSInit({0}) /\ EInit /\ CInit({1}) /\ MIdle

NextTtl ==
  \/ \E k \in {"a", "b"}, w \in Writes, ok \in BOOLEAN :
       CacheStep(set(k, w.data, w.ttl, ok))
  \/ \E k \in {"a", "b"}, ok \in BOOLEAN : CacheStep(get(k, ok))
  \/ \E k \in {"a", "b"}, ok \in BOOLEAN : CacheStep(has(k, ok))
  \/ \E k \in {"a", "b"}, ok \in BOOLEAN : CacheStep(delete(k, ok))
  \/ \E R \in SUBSET {"a", "b"} : CacheStep(clear(R))
  \/ CacheStep(cleanup)
  \/ CacheStep(cacheDispose)
  \/ CacheStep(tick)

SpecTtl == InitTtl /\ [][NextTtl]_vars

\* deletion: two keys written into a cache of one entry, deleted (the
\* store's remove failing at will) and read, by calls that run through and
\* by a call that other calls overtake while it waits for the store
InitDelete == QInit({"X"}, {1}, 0) /\ SMInit /\ WSInit({0}) /\ EInit /\ CInit({1}) /\ MIdle

NextDelete ==
  \/ \E k \in {"a", "b"}, w \in Writes : CacheStep(set(k, w.data, w.ttl, TRUE))
  \/ \E k \in {"a", "b"}, ok \in BOOLEAN : CacheStep(get(k, ok))
  \/ \E k \in {"a", "b"}, ok \in BOOLEAN : CacheStep(has(k, ok))
  \/ \E k \in {"a", "b"}, ok \in BOOLEAN : CacheStep(delete(k, ok))
  \/ \E k \in {"a", "b"}, ok \in BOOLEAN : GetStep(getReads(k, ok))
  \/ GetStep(getResumes)

SpecDelete == InitDelete /\ [][NextDelete]_vars

\* reads: two keys written with a long and a short ttl into a cache of one
\* entry and read back while time passes, the store failing at will
InitGet == QInit({"X"}, {1}, 0) /\ SMInit /\ WSInit({0}) /\ EInit /\ CInit({1}) /\ MIdle

NextGet ==
  \/ \E k \in {"a", "b"}, w \in Writes, ok \in BOOLEAN :
       CacheStep(set(k, w.data, w.ttl, ok))
  \/ \E k \in {"a", "b"}, ok \in BOOLEAN : CacheStep(get(k, ok))
  \/ CacheStep(tick)

SpecGet == InitGet /\ [][NextGet]_vars

\* a step of the mobile app's queue
MobileStep(A) == A /\ UNCHANGED <<qvars, smvars, wsvars, evars, cvars>>

\* the mobile queue: two add() calls and two processQueue() calls, started by
\* connectivity events or directly, the API failing at will, AsyncStorage
\* answering every call
InitMobile == QInit({"X"}, {1}, 0) /\ SMInit /\ WSInit({0}) /\ EInit /\ CIdle /\ MInit

NextMobile ==
  \/ \E a \in MAdds : MobileStep(add(a))
  \/ \E a \in MAdds : MobileStep(addReads(a, TRUE))
  \/ \E a \in MAdds : MobileStep(addSaves(a, TRUE))
  \/ \E p \in MPasses : MobileStep(mobileProcessQueue(p))
  \/ \E c \in BOOLEAN, p \in MPasses : MobileStep(netInfoEvent(c, p))
  \/ \E p \in MPasses : MobileStep(netInfoFetched(p))
  \/ \E p \in MPasses : MobileStep(queueRead(p, TRUE))
  \/ \E p \in MPasses, ok \in BOOLEAN : MobileStep(processItem(p, ok))
  \/ \E p \in MPasses : MobileStep(saveRemaining(p, TRUE))

SpecMobile == InitMobile /\ [][NextMobile]_vars

\* a step of syncEntity
EntityStep(A) == A /\ UNCHANGED <<qvars, smvars, wsvars, cvars, mvars>>

ESync ==
  \/ \E st \in Strategies, res \in BOOLEAN : EntityStep(setConflictStrategy(st, res))
  \/ \E local \in LocalEntities : EntityStep(syncEntity(local))
  \/ EntityStep(fetchRejects)
  \/ \E remote \in RemoteEntities \cup {NoEntity} : EntityStep(fetchResolves(remote))
  \/ \E ok \in BOOLEAN : EntityStep(saveSettles(ok))
  \/ EntityStep(syncEntityReturns)

\* syncEntity under a SyncManager that goes offline and online
InitEntity == QInit({"X"}, {1}, 0) /\ SMInit /\ WSInit({1}) /\ EInit /\ CIdle /\ MIdle

NextEntity ==
  \/ ESync
  \/ \E b \in BOOLEAN : SyncStep(smSetOnline(b) /\ UNCHANGED evars)
  \/ DueSync
  \/ SyncStep(syncSettles)

SpecEntity == InitEntity /\ [][NextEntity]_vars

(* ------------------------------- claims -------------------------------- *)
Increasing(s) == \A i, j \in DOMAIN s : i < j => s[i] < s[j]

\* C1: within one pass the handlers are invoked in enqueue order (ids are
\* handed out in enqueue order): the invocations of a pass so far, the action
\* in hand and the actions still to come are in increasing id order, and at
\* most one handler is running at any time.
C1_HandlersInEnqueueOrder ==
  /\ \A p \in 1..MaxPasses :
       LET ps == passes[p]
           ahead == [k \in DOMAIN ps.rest |-> ps.rest[k].id]
       IN  /\ Increasing(ps.log \o ahead)
           /\ ps.pc = "save1" => Increasing(ps.log \o <<ps.cur.id>> \o ahead)
           /\ ps.pc = "handler" => ps.log[Len(ps.log)] = ps.cur.id
  /\ Cardinality({p \in 1..MaxPasses : passes[p].pc = "handler"}) <= 1

\* three actions of two types replayed by one pass, the third handler running
C1_Witness ==
  \E p \in 1..MaxPasses :
    /\ passes[p].pc = "handler"
    /\ passes[p].log = <<1, 2, 3>>
    /\ \E k \in DOMAIN queue : queue[k].id = 1 /\ queue[k].type = "X"
    /\ \E k \in DOMAIN queue : queue[k].id = 2 /\ queue[k].type = "Y"

\* a step in which processQueue() is called
ProcessQueueCalled ==
  \/ retryWait /\ ~retryWait'
  \/ syncTimer > 0 /\ syncTimer' < syncTimer /\ online
  \/ ~online /\ online'

PassesButReentered(ps) ==
  [p \in DOMAIN ps |-> [ps[p] EXCEPT !.reentered = FALSE]]

\* C2: at most one pass is in progress at any time (processing is true exactly
\* then), and a call of processQueue() made while a pass is in progress
\* changes neither the queue, nor the store, nor the pass.
C2_SinglePass ==
  /\ [](/\ Cardinality(ActivePasses) <= 1
        /\ processing <=> ActivePasses # {})
  /\ [][processing /\ ProcessQueueCalled =>
          /\ queue' = queue
          /\ stored' = stored
          /\ processing'
          /\ PassesButReentered(passes') = PassesButReentered(passes)]_vars

\* processQueue() was called while this pass had a handler running
C2_Witness ==
  \E p \in 1..MaxPasses : passes[p].pc = "handler" /\ passes[p].reentered

FailedByHandler(a) == a.status = "failed" /\ a.error \in ErrMsgs

Max(a, b) == IF a >= b THEN a ELSE b

\* a step that leaves every failed action in the queue as it is
FailedStay ==
  \A k \in DOMAIN queue :
    queue[k].status = "failed" => \E n \in DOMAIN queue' : queue'[n] = queue[k]

\* a step of clearFailed, clearAll or retryFailed
AdminStep ==
  \/ queue' = SelectSeq(queue, LAMBDA a : a.status # "failed")
  \/ queue' = <<>>
  \/ queue' = [k \in DOMAIN queue |-> ResetFailed(queue[k])]

Accepted == (1..(nextId - 1)) \ enqWait

\* C4 as stated: an accepted action leaves the queue only when its handler
\* has succeeded, or by clearFailed while it is failed, or by clearAll, in
\* every interleaving with initialize().
C4_NeverSilentlyDropped ==
  [][\A i \in Accepted :
       InQueue(i) /\ ~InQueue(i)' =>
         \/ i \in succeeded
         \/ /\ loads' = loads
            /\ \/ queue' = <<>>
               \/ /\ Entry(i).status = "failed"
                  /\ queue' = SelectSeq(queue, LAMBDA a : a.status # "failed")]_vars

\* C5 as stated: after disconnect(), until the application calls connect()
\* again, the status stays 'disconnected' and no connection attempt is made:
\* connect() is not run, so the client has no current socket.
C5_DisconnectSuppressesReconnect ==
  wsObs.disconnectRequested => wsStatus = "disconnected" /\ ws = 0

\* C6: in a connection episode the application does not interfere with, once
\* a connection that was open has closed and every reconnection attempt has
\* failed to open, reconnect_failed has been emitted exactly once, after
\* exactly retryAttempts automatic attempts, the status is 'disconnected' and
\* no timer and no socket is left; the attempt counter never exceeds
\* retryAttempts and is 0 whenever an open has made the status 'connected'.
C6_BoundedReconnect ==
  /\ wsReconnectAttempts <= retryAttempts
  /\ wsStatus = "connected" => wsReconnectAttempts = 0
  /\ (~wsObs.tangled /\ wsObs.opened) =>
       /\ wsObs.failedEmits <= 1
       /\ wsObs.autoAttempts <= retryAttempts
       /\ wsObs.failedEmits = 1 =>
            /\ wsObs.autoAttempts = retryAttempts
            /\ wsStatus = "disconnected"
            /\ reconnectTimers = 0
            /\ LiveSockets = {}

\* two automatic attempts have failed after an open connection closed, and
\* the client has given up
C6_Witness ==
  /\ ~wsObs.tangled
  /\ wsObs.opened
  /\ retryAttempts = 2
  /\ wsObs.autoAttempts = 2
  /\ wsObs.failedEmits = 1
  /\ wsStatus = "disconnected"

\* the queue is not in the middle of a pass
QueueAtRest(q, pr) == ~pr /\ \A k \in DOMAIN q : q[k].status # "processing"

\* C7 as stated: when sync() records lastSyncAt, and when it emits
\* sync_completed, the pass that replays the pending actions has completed:
\* the queue is not mid-pass and no action is in status 'processing'.
C7_CompletedOnlyAfterPass ==
  [][/\ (syncRun.pc # "save" /\ syncRun'.pc = "save") => QueueAtRest(queue', processing')
     /\ (syncRun.pc = "save" /\ syncRun'.pc = "idle" /\ emitted' = "sync_completed")
          => QueueAtRest(queue, processing)]_vars

\* C8 as stated: a sendAndWait call resolves with the payload of the first
\* message carrying its correlation id, or else rejects at its timeout, and
\* once settled its entry is not in the pending-request map.
C8_SettlesOnceByReplyOrTimeout ==
  \A r \in 1..MaxRequests :
    /\ requests[r].state = "resolved" =>
         requests[r].by = "reply" /\ requests[r].value = requests[r].first
    /\ requests[r].state = "rejected" => requests[r].by = "timeout"
    /\ requests[r].state \in {"resolved", "rejected"} => r \notin pendingRequests

\* C9 as stated: when a conflict is detected under strategy 'manual', the
\* conflict is not auto-resolved: saveRemote is not invoked and syncEntity
\* returns the local entity flagged isLocal = true.
C9_ManualKeepsLocalUnsaved ==
  (entRun.conflict /\ entRun.used.strategy = "manual") =>
    /\ entRun.pc # "save"
    /\ ~entRun.saveOk
    /\ entRun.pc = "done" => entRun.result = [entRun.local EXCEPT !.isLocal = TRUE]

\* C10: on a detected conflict the entity passed to saveRemote is the local
\* one under strategy 'local', the remote one under 'remote', the result of
\* resolver(local, remote) under 'merge' with a resolver, and with no strategy
\* registered the side with the greater updatedAt (the remote one on a tie);
\* when saveRemote resolves, syncEntity returns its result tagged synced
\* (syncedAt set, isLocal = false).
C10_ResolvedEntityIsSaved ==
  entRun.conflict =>
    LET local == entRun.local
        remote == entRun.remote
        st == entRun.used
    IN  /\ entRun.pc \in {"save", "done"}
        /\ st.strategy = "local" => entRun.pushed = local
        /\ st.strategy = "remote" => entRun.pushed = remote
        /\ (st.strategy = "merge" /\ st.resolver) => entRun.pushed = resolver(local, remote)
        /\ (st.strategy = "none" /\ local.updatedAt > remote.updatedAt) => entRun.pushed = local
        /\ (st.strategy = "none" /\ local.updatedAt <= remote.updatedAt) => entRun.pushed = remote
        /\ (entRun.pc = "done" /\ entRun.saveOk) =>
             entRun.result = [saveRemote(entRun.pushed) EXCEPT !.syncedAt = Now,
                                                               !.isLocal = FALSE]

\* strategy 'remote', local edited at 3 and synced at 1, remote edited at 2:
\* the remote version was saved and returned
C10_Witness ==
  /\ entRun.pc = "done"
  /\ entRun.conflict
  /\ entRun.saveOk
  /\ entRun.used.strategy = "remote"
  /\ entRun.local.updatedAt = 3
  /\ entRun.local.syncedAt = 1
  /\ entRun.remote.updatedAt = 2
  /\ entRun.result.data = "R"
  /\ ~entRun.result.isLocal

\* the places of x in the sequence t
Places(t, x) == {i \in 1..Len(t) : t[i] = x}

\* C11: during an online syncEntity whose fetchRemote returned a remote copy,
\* 'conflict_detected' is emitted, and before any call of saveRemote, if and
\* only if remote.updatedAt > local.syncedAt and local.updatedAt >
\* local.syncedAt, a missing syncedAt counting as 0.
C11_ConflictDetectedIff ==
  (entRun.pc \in {"save", "done"} /\ entRun.remote # NoEntity) =>
    LET local == entRun.local
        remote == entRun.remote
        detected == Places(entRun.trace, "conflict_detected")
    IN  /\ (detected # {}) <=> (/\ remote.updatedAt > local.syncedAt
                                /\ local.updatedAt > local.syncedAt)
        /\ Cardinality(detected) <= 1
        /\ \A i \in detected, j \in Places(entRun.trace, "saveRemote") : i < j

\* a local copy never synced (syncedAt missing) and edited at 1 meets a remote
\* copy edited at 1: the conflict is announced, then saveRemote is called
C11_Witness ==
  /\ entRun.pc = "save"
  /\ entRun.local.syncedAt = 0
  /\ entRun.local.updatedAt = 1
  /\ entRun.remote.updatedAt = 1
  /\ entRun.trace = <<"fetchRemote", "conflict_detected", "saveRemote">>

\* fetchRemote has resolved in this call of syncEntity
FetchResolved == entRun.remote # NoEntity \/ Places(entRun.trace, "saveRemote") # {}

\* C16: syncEntity never raises; called offline it returns local tagged
\* isLocal=true without invoking fetchRemote or saveRemote; when fetchRemote or
\* saveRemote rejects it returns local tagged isLocal=true; a result tagged
\* isLocal=false is returned only after a remote exchange that succeeded.
C16_SyncEntityFallsBackToLocal ==
  /\ [](entRun.pc = "done" =>
          LET tagged == [entRun.local EXCEPT !.isLocal = TRUE]
              saveCalled == Places(entRun.trace, "saveRemote") # {}
          IN  /\ entRun.result # NoEntity
              /\ (entRun.trace = <<>>) => entRun.result = tagged
              /\ ~FetchResolved => entRun.result = tagged
              /\ (saveCalled /\ ~entRun.saveOk) => entRun.result = tagged
              /\ ~entRun.result.isLocal =>
                    /\ FetchResolved
                    /\ saveCalled => entRun.saveOk)
  /\ [][(entRun.pc = "idle" /\ entRun'.pc # "idle" /\ ~status.isOnline) =>
          /\ entRun'.pc = "done"
          /\ entRun'.trace = <<>>
          /\ entRun'.result = [entRun'.local EXCEPT !.isLocal = TRUE]]_vars

\* the coordinator was online at the call, fetchRemote resolved with no remote
\* copy and saveRemote rejected: the local copy comes back tagged
C16_Witness ==
  /\ entRun.pc = "done"
  /\ entRun.trace = <<"fetchRemote", "saveRemote">>
  /\ ~entRun.saveOk
  /\ entRun.result = [entRun.local EXCEPT !.isLocal = TRUE]

\* the pass p applies its final filter in this step
PassFilters(p) == passes[p].pc # "final" /\ passes'[p].pc = "final"

\* C12: at the end of every processQueue pass no 'completed' action is left in
\* getQueue() while the actions that are not completed remain; and an action
\* whose handler has succeeded is never passed to a handler again, whether in
\* a later pass, after retryFailed() or after the queue was re-hydrated.
C12_CompletedPurgedNeverReplayed ==
  /\ [][\A p \in 1..MaxPasses :
          PassFilters(p) =>
            /\ \A k \in DOMAIN queue' : queue'[k].status # "completed"
            /\ \A k \in DOMAIN queue :
                 queue[k].status \in {"pending", "failed"} =>
                   \E n \in DOMAIN queue' : queue'[n].id = queue[k].id]_vars
  /\ [](\A p \in 1..MaxPasses :
          passes[p].pc = "handler" => passes[p].cur.id \notin succeeded)

\* C13: enqueue throws 'Queue is full' exactly when the queue already holds
\* maxQueueSize actions of any status; the call that throws leaves the queue
\* in memory and the persisted queue unchanged, invokes no handler and starts
\* no pass; so the queue never grows beyond maxQueueSize.
C13_FullQueueRejects ==
  /\ [][rejected' # rejected =>
          /\ Len(queue) >= maxQueueSize
          /\ UNCHANGED <<queue, stored, passes, processing, enqWait, syncTimer>>]_vars
  /\ [][nextId' # nextId => Len(queue) < maxQueueSize]_vars
  /\ [](Len(queue) <= maxQueueSize)

\* a queue of capacity 2 holding one failed and one pending action has turned
\* an enqueue call away
C13_Witness ==
  /\ rejected = 1
  /\ maxQueueSize = 2
  /\ Len(queue) = 2
  /\ \E k \in DOMAIN queue : queue[k].status = "failed"
  /\ \E k \in DOMAIN queue : queue[k].status = "pending"

\* the saveStatus() write of the running sync() failed and sync() settles
StoreFailureSettles == syncRun.pc = "save" /\ ~syncRun.ok /\ syncRun'.pc = "idle"

\* C14: a failing Persistent Store call is a soft failure: the operation
\* completes without raising and without reporting a failure; for sync() no
\* 'sync_failed' event is emitted and syncErrors gets no entry, and the status
\* in memory ends as after a successful store call.
C14_StoreFailureIsSoft ==
  [][StoreFailureSettles =>
       /\ emitted' = "sync_completed"
       /\ status'.syncErrors = status.syncErrors
       /\ status'.lastSyncAt = "now"]_vars

\* the running sync() settles in this step
SyncSettlesNow == syncRun.pc = "save" /\ syncRun'.pc = "idle"

\* C15: an action that becomes permanently 'failed' during a sync() is
\* surfaced in the sync status: when the sync() has settled, failedCount
\* counts it and syncErrors contains its error.
C15_FailedActionSurfaced ==
  [][SyncSettlesNow =>
       \A k \in DOMAIN queue' :
         (queue'[k].id \in syncRun.ran /\ queue'[k].status = "failed") =>
           /\ status'.failedCount >= 1
           /\ \E j \in DOMAIN status'.syncErrors :
                status'.syncErrors[j] = queue'[k].error]_vars

\* what C15 says of failedCount alone
FailedActionCounted ==
  [][SyncSettlesNow =>
       status'.failedCount =
         Cardinality({k \in DOMAIN queue' : queue'[k].status = "failed"})]_vars

\* C17: the sync events come in pairs: 'sync_started' is emitted only when no
\* sync is running and the coordinator is online, and is followed by exactly
\* one 'sync_completed' or 'sync_failed' before the next 'sync_started';
\* isSyncing is true exactly between the two; a sync() called while syncing
\* or offline emits nothing and starts no pass; isSyncing is false once
\* sync() has settled.
C17_SyncEventsPaired ==
  /\ [](status.isSyncing <=> syncRun.pc # "idle")
  /\ [](emitted = "sync_started" => status.isSyncing)
  /\ [](emitted \in {"sync_completed", "sync_failed"} => ~status.isSyncing)
  /\ [][(emitted' = "sync_started" /\ emitted' # emitted) =>
          ~status.isSyncing /\ status.isOnline /\ status'.isSyncing]_vars
  /\ [][(~status.isSyncing /\ status'.isSyncing) => emitted' = "sync_started"]_vars
  /\ [][(status.isSyncing /\ ~status'.isSyncing) =>
          emitted' \in {"sync_completed", "sync_failed"}]_vars
  /\ [][(emitted' \in {"sync_completed", "sync_failed"} /\ emitted' # emitted) =>
          status.isSyncing /\ ~status'.isSyncing]_vars
  /\ [][(syncDue /\ ~syncDue' /\ status.isSyncing) =>
          UNCHANGED <<qvars, status, syncRun, emitted>>]_vars

\* a sync() whose status write failed has settled: 'sync_failed' closes the
\* pair and isSyncing is false again
C17_Witness ==
  /\ emitted = "sync_failed"
  /\ ~status.isSyncing
  /\ syncRun.pc = "idle"
  /\ Len(status.syncErrors) = 1
  /\ Len(queue) > 0

\* sync() is called from setOnline exactly on the change from offline to
\* online, and every change of isOnline is announced by its event
SyncOnReconnectOnly ==
  /\ [][status.isOnline # status'.isOnline =>
          emitted' = IF status'.isOnline THEN "online" ELSE "offline"]_vars
  /\ [][(syncDue' /\ ~syncDue) => (~status.isOnline /\ status'.isOnline)]_vars
  /\ [][(~status.isOnline /\ status'.isOnline) => syncDue']_vars

\* C18: 'online' is emitted exactly when connectivity changes from offline to
\* online and 'offline' exactly when it changes from online to offline; a
\* setOnline call that leaves isOnline as it was, the periodic probe's
\* included, emits neither; sync() is triggered exactly on the change from
\* offline to online.
C18_OnlineOfflineOnTransitionOnly ==
  /\ [][(emitted' = "online" /\ emitted' # emitted) =>
          (~status.isOnline /\ status'.isOnline)]_vars
  /\ [][(emitted' = "offline" /\ emitted' # emitted) =>
          (status.isOnline /\ ~status'.isOnline)]_vars
  /\ SyncOnReconnectOnly

\* the edges of the connection state machine, disconnect() apart
StatusEdges ==
  {<<"disconnected", "connecting">>, <<"connecting", "connected">>,
   <<"connected", "reconnecting">>, <<"reconnecting", "connecting">>,
   <<"connecting", "error">>, <<"connected", "error">>, <<"reconnecting", "error">>,
   <<"reconnecting", "disconnected">>}

\* this step is a call of disconnect(): the current socket is forgotten and
\* no socket has reached its close event
DisconnectStep ==
  /\ ws' = 0
  /\ wsStatus' = "disconnected"
  /\ \A s \in 1..MaxSockets : sockets'[s] = "closed" => sockets[s] = "closed"

\* C19: the connection status starts as 'disconnected' and afterwards changes
\* only along the edges disconnected -> connecting -> connected ->
\* reconnecting -> connecting, connecting/connected/reconnecting -> error,
\* reconnecting -> disconnected when the attempts are used up, and any state
\* -> disconnected on disconnect().
C19_StatusFollowsStateMachine ==
  /\ []((\A s \in 1..MaxSockets : sockets[s] = "none") => wsStatus = "disconnected")
  /\ [][wsStatus' # wsStatus =>
          (<<wsStatus, wsStatus'>> \in StatusEdges \/ DisconnectStep)]_vars

\* the sockets that are connecting or open; each has the client's callbacks
ActiveSockets == {s \in 1..MaxSockets : sockets[s] \in {"connecting", "open"}}

\* connect() on an open connection creates no socket and changes no status
ConnectWhenOpenIsNoOp ==
  [][AlreadyOpen =>
       /\ \A s \in 1..MaxSockets : sockets[s] = "none" => sockets'[s] = "none"
       /\ wsStatus' = "connecting" => wsStatus = "connecting"]_vars

\* C20: the client owns one logical connection: at most one socket is
\* connecting or open with callbacks that can change the client's state;
\* connect() on an open connection creates no socket and changes no state;
\* getStatus() is 'connected' exactly when the current socket is open.
C20_OneLogicalConnection ==
  /\ [](Cardinality(ActiveSockets) <= 1)
  /\ [](wsStatus = "connected" <=> AlreadyOpen)
  /\ ConnectWhenOpenIsNoOp

\* C24: with a remote copy and no conflict detected, syncEntity calls
\* saveRemote(local) if and only if local.updatedAt > remote.updatedAt, and
\* otherwise returns the remote copy tagged synced, isLocal=false, without
\* calling saveRemote; with no remote copy it pushes local via saveRemote and
\* returns the saved result tagged synced.
C24_PushOnlyWhenLocalNewer ==
  (entRun.pc \in {"save", "done"} /\ FetchResolved) =>
    LET local == entRun.local
        remote == entRun.remote
        saves == Places(entRun.trace, "saveRemote")
        synced(e) == [e EXCEPT !.syncedAt = Now, !.isLocal = FALSE]
    IN  /\ (remote # NoEntity /\ Places(entRun.trace, "conflict_detected") = {}) =>
              /\ (saves # {}) <=> (local.updatedAt > remote.updatedAt)
              /\ saves # {} => entRun.pushed = local
              /\ saves = {} => (entRun.pc = "done" /\ entRun.result = synced(remote))
        /\ remote = NoEntity =>
              /\ Cardinality(saves) = 1
              /\ entRun.pushed = local
        /\ (entRun.pc = "done" /\ saves # {} /\ entRun.saveOk) =>
              entRun.result = synced(saveRemote(entRun.pushed))

\* local edited at 2 and synced at 2, remote edited at 2: no conflict, local
\* is not newer, the remote copy is returned and saveRemote was not called
C24_Witness ==
  /\ entRun.pc = "done"
  /\ entRun.local.updatedAt = 2
  /\ entRun.local.syncedAt = 2
  /\ entRun.remote.updatedAt = 2
  /\ entRun.trace = <<"fetchRemote">>
  /\ entRun.result.data = "R"
  /\ ~entRun.result.isLocal

\* C25: an action whose type has no handler is accepted by enqueue; the pass
\* that reaches it marks it 'failed' with the no-handler error at once, no
\* handler is invoked and retryCount stays as it was; the pass goes on with
\* the remaining pending actions in insertion order.
C25_NoHandlerFailsAtOnce ==
  /\ \A k \in DOMAIN queue :
       queue[k].type \notin handlers =>
         /\ queue[k].status \in {"pending", "failed"}
         /\ queue[k].retryCount = 0
         /\ queue[k].status = "failed" => queue[k].error = NoHandlerError
         /\ fails[queue[k].id] = 0
         /\ queue[k].id \notin succeeded
         /\ \A p \in 1..MaxPasses :
              /\ passes[p].cur.id # queue[k].id
              /\ \A n \in DOMAIN passes[p].log : passes[p].log[n] # queue[k].id
              /\ (passes[p].pc \in {"save1", "handler"} /\ queue[k].id < passes[p].cur.id)
                   => queue[k].status = "failed"
  /\ \A p \in 1..MaxPasses : Increasing(passes[p].log)

\* actions 1 and 3 have a handler, action 2 has none: one pass has run the
\* handler of 1, failed 2 without a handler call and gone on to 3
C25_Witness ==
  \E p \in 1..MaxPasses :
    /\ passes[p].pc = "handler"
    /\ passes[p].log = <<1, 3>>
    /\ \E k \in DOMAIN queue :
         /\ queue[k].id = 2
         /\ queue[k].type \notin handlers
         /\ queue[k].status = "failed"
         /\ queue[k].retryCount = 0
         /\ queue[k].error = NoHandlerError

\* retryFailed() resets the queue in this step
RetryFailedCalled == ~retryWait /\ retryWait'

\* some action is pending and nothing is under way that would start a pass:
\* no pass, no enqueue or retryFailed about to call processQueue, no timer
Stranded ==
  /\ getPendingCount > 0
  /\ online
  /\ ~processing
  /\ enqWait = {}
  /\ ~retryWait
  /\ syncTimer = 0

\* C26: retryFailed() turns every 'failed' action into 'pending' with
\* retryCount 0 and no error and leaves the other actions and the order of the
\* queue unchanged; the reset actions are attempted again: retryFailed starts
\* a pass, or, with a pass in flight or the queue offline, a later pass is
\* due (at the end of the pass in flight, or on coming back online).
C26_RetryFailedResetsAndReplays ==
  /\ [][RetryFailedCalled =>
          /\ Len(queue') = Len(queue)
          /\ \A k \in DOMAIN queue :
               queue'[k] = IF queue[k].status = "failed"
                           THEN [queue[k] EXCEPT !.status = "pending", !.retryCount = 0,
                                                 !.error = NoError]
                           ELSE queue[k]]_vars
  /\ [][(retryWait /\ ~retryWait' /\ online /\ ~processing) => processing']_vars
  /\ [][(~online /\ online' /\ ~processing) => processing']_vars
  /\ [](~Stranded)

\* action 1 had failed (one attempt allowed), was reset by retryFailed() and
\* is with its handler again, while action 2, failed after the reset, stays
\* failed
C26_Witness ==
  \E p \in 1..MaxPasses :
    /\ passes[p].pc = "handler"
    /\ passes[p].cur.id = 1
    /\ passes[p].cur.retryCount = 0
    /\ fails[1] = 0
    /\ \E k \in DOMAIN queue : queue[k].id = 2 /\ queue[k].status = "failed"

\* what getStatus() would return now equals the counts of the queue
GetStatusIsFresh ==
  /\ updateCounts(status).pendingCount =
       Cardinality({k \in DOMAIN queue : queue[k].status = "pending"})
  /\ updateCounts(status).failedCount =
       Cardinality({k \in DOMAIN queue : queue[k].status = "failed"})

\* C28: the counts exposed by SyncManager are always recomputed from the
\* queue: getStatus().pendingCount and failedCount equal the queue's counts at
\* every call, and hasPendingChanges() is true exactly when the queue holds a
\* pending action.
C28_CountsFollowQueue ==
  /\ GetStatusIsFresh
  /\ hasPendingChanges <=> (\E k \in DOMAIN queue : queue[k].status = "pending")

\* the connection is lost or torn down in this step: a socket leaves the
\* connecting or open state
ConnectionLost ==
  \E s \in 1..MaxSockets :
    sockets[s] \in {"connecting", "open"} /\ sockets'[s] \in {"closing", "closed"}

\* C29: a sendAndWait request that is pending when the connection closes or
\* errors is not rejected at that moment: it stays pending, and is settled
\* only by a reply carrying its correlation id or by its own timeout.
C29_PendingSurvivesConnectionLoss ==
  /\ [][(ConnectionLost \/ wsStatus' # wsStatus) =>
          \A r \in 1..MaxRequests :
            /\ requests[r].state = "pending" => requests'[r] = requests[r]
            /\ r \in pendingRequests => r \in pendingRequests']_vars
  /\ [][\A r \in 1..MaxRequests :
          (requests[r].state = "pending" /\ requests'[r].state # "pending") =>
            \/ requests'[r].state = "resolved" /\ requests'[r].by = "reply"
            \/ /\ requests'[r].state = "rejected" /\ requests'[r].by = "timeout"
               /\ requests[r].timer /\ ~requests'[r].timer]_vars

\* a request sent on socket 1 is still pending after that socket has closed
\* and socket 2 has opened in its place
C29_Witness ==
  /\ requests[1].state = "pending"
  /\ requests[1].sent
  /\ sockets[1] = "closed"
  /\ ws = 2
  /\ sockets[2] = "open"

\* the unsubscribe function of the k-th on() call is called in this step
Unsubscribed(k) ==
  /\ k \in DOMAIN subscriptions
  /\ Len(subscriptions') = Len(subscriptions)
  /\ subscriptions'[k].calls = subscriptions[k].calls + 1

\* a message of type t is dispatched to the subscribers in this step
Dispatched(t) == delivered' # delivered /\ delivered'.type = t

\* a dispatched message of a type reaches exactly the handlers subscribed to
\* that type
DeliveredToEverySubscriber ==
  [][\A t \in MsgTypes : Dispatched(t) => delivered'.to = eventHandlers[t]]_vars

\* an unsubscribe call removes at most its own handler from its own type
UnsubscribeRemovesOnlyThatHandler ==
  [][\A k \in 1..MaxOn : Unsubscribed(k) =>
        \A t \in MsgTypes :
          /\ eventHandlers'[t] \subseteq eventHandlers[t]
          /\ eventHandlers[t] \ eventHandlers'[t] \subseteq
               (IF t = subscriptions[k].type THEN {subscriptions[k].handler} ELSE {})
          /\ subscriptions[k].calls = 0 =>
               subscriptions[k].handler \notin eventHandlers'[subscriptions[k].type]]_vars

\* the same handler was subscribed to the same type again by a later on()
SubscribedAgainLater(k) ==
  \E j \in DOMAIN subscriptions :
    /\ j > k
    /\ subscriptions[j].type = subscriptions[k].type
    /\ subscriptions[j].handler = subscriptions[k].handler

\* C27 as stated: several subscribers per type, each dispatched message goes
\* to every handler subscribed to its type, an unsubscribe call removes only
\* its own handler, and a repeated unsubscribe call changes nothing.
C27_RepeatedUnsubscribeHasNoEffect ==
  /\ DeliveredToEverySubscriber
  /\ UnsubscribeRemovesOnlyThatHandler
  /\ [][\A k \in 1..MaxOn :
          Unsubscribed(k) /\ subscriptions[k].calls > 0 =>
            eventHandlers' = eventHandlers]_vars

\* C27 (amended): several subscribers per type, each dispatched message goes
\* to every handler subscribed to its type, an unsubscribe call removes only
\* its own handler, and a repeated unsubscribe call changes nothing unless
\* the same handler was subscribed to the same type again by a later on():
\* then the repeated call removes that later subscription.
C27_RepeatedUnsubscribeUnlessSubscribedAgain ==
  /\ DeliveredToEverySubscriber
  /\ UnsubscribeRemovesOnlyThatHandler
  /\ [][\A k \in 1..MaxOn :
          Unsubscribed(k) /\ subscriptions[k].calls > 0 =>
            \/ eventHandlers' = eventHandlers
            \/ SubscribedAgainLater(k)]_vars

\* two handlers subscribed to one type and one to the other; the first was
\* unsubscribed twice, and a message of its type went to the second alone
C27_Witness ==
  /\ Len(subscriptions) = 3
  /\ subscriptions[1].type = subscriptions[2].type
  /\ subscriptions[1].handler # subscriptions[2].handler
  /\ subscriptions[3].type # subscriptions[1].type
  /\ subscriptions[1].calls = 2
  /\ subscriptions[2].calls = 0
  /\ subscriptions[3].calls = 0
  /\ eventHandlers[subscriptions[3].type] = {subscriptions[3].handler}
  /\ delivered = [type |-> subscriptions[1].type, to |-> {subscriptions[2].handler}]

\* C21: every incoming message goes to exactly one destination: a message
\* whose correlation id matches a pending sendAndWait settles that request
\* and is dispatched to no subscriber; any other message (no correlation id,
\* or an id with no pending request, such as a reply arriving after the
\* timeout) settles nothing and is dispatched to exactly the handlers
\* subscribed to its type.
C21_OneDestinationPerMessage ==
  [][\A s \in 1..MaxSockets, c \in 0..MaxRequests, t \in MsgTypes :
       onmessage(s, c, "a", t) =>
         IF c # 0 /\ c \in pendingRequests
         THEN /\ requests'[c].state = "resolved"
              /\ requests'[c].by = "reply"
              /\ c \notin pendingRequests'
              /\ \A r \in (1..MaxRequests) \ {c} : requests'[r] = requests[r]
              /\ delivered' = delivered
         ELSE /\ requests' = requests
              /\ pendingRequests' = pendingRequests
              /\ delivered' = [type |-> t, to |-> eventHandlers[t]]]_vars

\* one request was settled by its reply and nothing had been dispatched by
\* then; the other timed out, and a message that came afterwards went to the
\* subscriber of its type while the subscriber of the other type got none
C21_Witness ==
  /\ requests[1].state = "resolved"
  /\ requests[1].by = "reply"
  /\ requests[2].state = "rejected"
  /\ requests[2].by = "timeout"
  /\ pendingRequests = {}
  /\ eventHandlers = [t \in MsgTypes |-> IF t = "t1" THEN {"h1"} ELSE {"h2"}]
  /\ delivered = [type |-> "t2", to |-> {"h2"}]

\* the latest set() of the key is still valid: now - writtenAt <= ttl
LatestValid(k) == written[k] # NoEntry /\ clock - written[k].timestamp <= written[k].ttl

\* what get(key) is to return: the value of the latest set() while it is
\* valid, null otherwise
Expected(k) == IF LatestValid(k) THEN written[k].data ELSE "null"

\* a get() or has() call returns in this step (one that repeats the result
\* before it without restoring an entry leaves the state as it is)
Returns(op) == returned' # returned /\ returned'.op = op

\* get never returns a value other than that of the latest set() of the key
GetNeverReturnsAnOlderValue ==
  [][Returns("get") /\ written[returned'.key] # NoEntry =>
       returned'.data \in {"null", written[returned'.key].data}]_vars

\* no entry that has expired is returned, from either tier
ExpiredNeverReturned ==
  [][/\ Returns("get") /\ returned'.data # "null" =>
          \E e \in {MapGet(memoryCache, returned'.key), cacheStored[returned'.key]} :
            e # NoEntry /\ e.data = returned'.data /\ clock - e.timestamp <= e.ttl
     /\ Returns("has") /\ returned'.data = "true" =>
          \E e \in {MapGet(memoryCache, returned'.key), cacheStored[returned'.key]} :
            e # NoEntry /\ clock - e.timestamp <= e.ttl]_vars

\* C23: get(k) returns the value of the latest set(k, v, ttl) if and only if
\* now - writtenAt <= ttl, and null otherwise, whichever tier holds the
\* entry; has(k) answers accordingly; an expired entry is never returned.
C23_GetReturnsLatestIffValid ==
  /\ [][\A k \in CacheKeys, ok \in BOOLEAN :
          /\ get(k, ok) => returned'.data = Expected(k)
          /\ has(k, ok) => returned'.data = (IF LatestValid(k) THEN "true" ELSE "false")]_vars
  /\ ExpiredNeverReturned

\* the keys of the entries of a memory cache
KeysOf(m) == {m[i].key : i \in DOMAIN m}

\* set(k, ...) inserts a key the in-process tier does not hold while the tier
\* holds maxEntries entries
InsertsIntoFull(k) ==
  /\ k \notin KeysOf(memoryCache)
  /\ Len(memoryCache) = maxEntries
  /\ memoryCache' # memoryCache
  /\ \E ok \in BOOLEAN : set(k, "v1", 2, ok)

\* an entry of the in-process tier that has not expired is what get returns,
\* and reading it changes neither the tier nor its timestamps
MemoryEntryRetrievable ==
  [][\A k \in KeysOf(memoryCache) :
       (/\ Returns("get")
        /\ returned'.key = k
        /\ clock - MapGet(memoryCache, k).timestamp <= MapGet(memoryCache, k).ttl)
       => /\ returned'.data = MapGet(memoryCache, k).data
          /\ memoryCache' = memoryCache]_vars

\* C22: when the in-process tier holds maxEntries entries and set inserts
\* one more key, exactly one entry leaves the tier, one whose write timestamp
\* is the smallest, however recently it was read; every other entry and the
\* new one are in the tier afterwards, unchanged, and get returns them.
C22_EvictsOldestWritten ==
  /\ [][\A k \in CacheKeys : InsertsIntoFull(k) =>
          LET gone == KeysOf(memoryCache) \ KeysOf(memoryCache')
          IN  /\ Cardinality(gone) = 1
              /\ \A x \in gone : \A i \in DOMAIN memoryCache :
                    MapGet(memoryCache, x).timestamp <= memoryCache[i].timestamp
              /\ \A x \in KeysOf(memoryCache) \ gone :
                    MapGet(memoryCache', x) = MapGet(memoryCache, x)
              /\ MapGet(memoryCache', k) =
                    [key |-> k, data |-> "v1", timestamp |-> clock, ttl |-> 2]
              /\ KeysOf(memoryCache') = (KeysOf(memoryCache) \ gone) \cup {k}]_vars
  /\ MemoryEntryRetrievable

\* a cache of two entries: "a" was written first, then "b", then "c"; "a" has
\* left the in-process tier although it is still valid and was read after
\* "b" was written, and "b" has been read back since
C22_Witness ==
  /\ maxEntries = 2
  /\ clock = 2
  /\ written["a"].timestamp = 0 /\ written["a"].key = "a"
  /\ Len(memoryCache) = 2
  /\ memoryCache[1].key = "b" /\ memoryCache[1].timestamp = 1
  /\ memoryCache[2].key = "c" /\ memoryCache[2].timestamp = 2
  /\ returned = [op |-> "get", key |-> "b", data |-> "v1"]

\* a pass ends in this step
PassEnding(p) == passes[p].pc = "final" /\ passes'[p].pc = "idle"

\* a pass that ends with a pending action in the queue, whether the pass
\* took it or it was enqueued meanwhile, leaves the retry timer armed
PendingArmsRetry ==
  [][\A p \in 1..MaxPasses :
       PassEnding(p) /\ (\E k \in DOMAIN queue : queue[k].status = "pending")
         => syncTimer' >= 1]_vars

\* an action leaves the queue only as completed
LeavesOnlyCompleted ==
  [][\A i \in Ids : InQueue(i) /\ ~InQueue(i)' => Entry(i).status = "completed"]_vars

\* C30: while the queue stays online and the application does no more than
\* enqueue, an action whose handler fails fewer than maxRetries times and
\* then succeeds is attempted again after each failure and eventually
\* leaves the queue, as completed; a pass that ends with pending actions,
\* those enqueued during the pass included, arms the retry timer; at most
\* one retry timer is armed at a time.
C30_RetriedUntilCompleted ==
  /\ \A i \in Ids : InQueue(i) ~> ~InQueue(i)
  /\ LeavesOnlyCompleted
  /\ PendingArmsRetry
  /\ [](syncTimer <= 1)

\* the second action was enqueued while the pass of the first was running;
\* the first has failed once and waits, no pass is running, the timer is
\* armed and the second has not been invoked yet
C30_Witness ==
  /\ Len(queue) = 2
  /\ queue[1].id = 1 /\ queue[1].status = "pending" /\ queue[1].retryCount = 1
  /\ queue[2].id = 2 /\ queue[2].status = "pending"
  /\ fails[2] = 0 /\ 2 \notin succeeded
  /\ \A p \in 1..MaxPasses : passes[p].log = <<>> /\ passes[p].pc = "idle"
  /\ ~processing
  /\ enqWait = {}
  /\ syncTimer = 1

\* C32: every action of the queue whose status is 'pending' or 'processing'
\* has 0 <= retryCount <= maxRetries, for every configured maxRetries >= 0
\* and across retryFailed() resets.
C32_RetryCountWithinMaxRetries ==
  \A k \in DOMAIN queue :
    queue[k].status \in {"pending", "processing"} =>
      queue[k].retryCount >= 0 /\ queue[k].retryCount <= queue[k].maxRetries

\* maxRetries is 1: the pass invoked action 1, which can only have failed for
\* good, and retryFailed() has made it pending again with retryCount 0
C32_Witness ==
  /\ maxRetries = 1
  /\ Len(queue) >= 1
  /\ queue[1].id = 1 /\ queue[1].status = "pending" /\ queue[1].retryCount = 0
  /\ \E p \in 1..MaxPasses : passes[p].log = <<1>> /\ passes[p].pc \in {"save2", "final"}

\* no processQueue pass is in flight
NoPassInFlight == ~processing /\ \A p \in 1..MaxPasses : passes[p].pc = "idle"

\* C35: whenever no pass is in flight no action of the queue has status
\* 'processing', also right after initialize() has hydrated a queue that was
\* persisted while a handler was running: every action is pending or failed,
\* so it is counted by getPendingCount() or getFailedCount().
C35_NoProcessingWithoutPass ==
  NoPassInFlight =>
    /\ \A k \in DOMAIN queue : queue[k].status \in {"pending", "failed"}
    /\ getPendingCount + getFailedCount = Len(queue)

\* no operation of the queue is in flight
Quiescent ==
  /\ ~processing
  /\ \A p \in 1..MaxPasses : passes[p].pc = "idle"
  /\ enqWait = {}
  /\ ~retryWait
  /\ ~loadWait.active

\* the fields of an action that getQueue() and the store show
Shown(a) == [id |-> a.id, type |-> a.type, status |-> a.status,
             retryCount |-> a.retryCount, maxRetries |-> a.maxRetries, error |-> a.error]

\* C31: whenever no operation of the queue is in flight, the array persisted
\* under the storage key holds the actions of the in-memory queue, in the
\* same order with the same status, retryCount and error (nothing is
\* persisted only as long as nothing was ever queued), and the queue that
\* initialize() would hydrate from the store shows the same getQueue().
C31_StoreMirrorsQueue ==
  Quiescent =>
    /\ ~stored.present => queue = <<>>
    /\ stored.present =>
         /\ Len(stored.val) = Len(queue)
         /\ \A k \in DOMAIN queue : Shown(stored.val[k]) = Shown(queue[k])
         /\ LET fresh == Hydrate(stored.val, loads + 1)
            IN  [k \in DOMAIN fresh |-> Shown(fresh[k])] = [k \in DOMAIN queue |-> Shown(queue[k])]

\* nothing in flight: the first action has failed for good with its error,
\* the second waits, and the store holds both
C31_Witness ==
  /\ Quiescent
  /\ Len(queue) = 2
  /\ queue[1].status = "failed" /\ queue[1].error \in ErrMsgs /\ queue[1].retryCount = 1
  /\ queue[2].status = "pending"
  /\ stored.present /\ Len(stored.val) = 2
  /\ stored.val[1].status = "failed"

\* dispose() leaves a pass in flight alone
DisposeLeavesPassAlone ==
  [][disposed' /\ ~disposed =>
       passes' = passes /\ queue' = queue /\ processing' = processing]_vars

\* C33: dispose() cancels the outstanding timers without cancelling a pass
\* in flight: the pass goes on as before, and once nothing of the queue is
\* in flight any more no timer is armed, so the retry timer starts no new
\* pass after dispose().
C33_DisposeCancelsTimers ==
  /\ DisposeLeavesPassAlone
  /\ [](disposed /\ NoPassInFlight /\ enqWait = {} => syncTimer = 0)
  /\ [][disposed /\ NoPassInFlight /\ enqWait = {} => ~processing']_vars

\* a handler is invoked in this step
HandlerStarted == \E p \in 1..MaxPasses : passes[p].pc # "handler" /\ passes'[p].pc = "handler"

\* while the queue is and stays offline no pass is started: not by enqueue,
\* not by the retry timer, not by retryFailed
OfflineStartsNoPass ==
  [][~online /\ ~online' => (processing' => processing)]_vars

\* C36: no handler invocation is started while the online flag is false:
\* enqueue while offline only stores the action, and after setOnline(false)
\* no handler is started, neither for the remaining actions of a pass in
\* flight nor by the retry timer, until setOnline(true).
C36_NoHandlerWhileOffline ==
  /\ OfflineStartsNoPass
  /\ [][HandlerStarted => online]_vars

\* a step other than a promotion by get() never takes the in-process tier
\* beyond maxEntries
OnlyPromotionExceeds ==
  [][Len(memoryCache) <= maxEntries /\ Len(memoryCache') > maxEntries =>
       returned'.op = "get" /\ MapGet(memoryCache, returned'.key) = NoEntry
         /\ MapGet(memoryCache', returned'.key) = cacheStored[returned'.key]]_vars

\* C38: the in-process tier never holds more than maxEntries entries, after
\* any sequence of set, get (promotions from the persistent tier included)
\* and background sweeps.
C38_MemoryWithinMaxEntries == Len(memoryCache) <= maxEntries

\* the entry of key k is within its ttl at the present time
Unexpired(e) == e # NoEntry /\ clock - e.timestamp <= e.ttl

\* every entry of the memory cache under another key than k stays as it is
OthersKept(k) ==
  /\ \A i \in DOMAIN memoryCache :
       memoryCache[i].key # k =>
         \E j \in DOMAIN memoryCache' : memoryCache'[j] = memoryCache[i]
  /\ \A j \in DOMAIN memoryCache' :
       memoryCache'[j].key # k =>
         \E i \in DOMAIN memoryCache : memoryCache[i] = memoryCache'[j]

\* C34: get(k) answers from the in-process tier when its entry is unexpired,
\* whatever the persistent tier holds, and changes nothing; otherwise an
\* unexpired persistent entry is returned and put into the in-process tier
\* with the timestamp and ttl it was written with; otherwise get returns
\* absent and leaves both tiers as they are. No get changes the persistent
\* tier.
C34_GetReadsThroughAndPromotes ==
  [][\A k \in {"a", "b"}, ok \in BOOLEAN :
       returned'.op = "get" /\ returned'.key = k /\ clock' = clock
         /\ get(k, ok) =>
         LET mem == MapGet(memoryCache, k)
             sto == cacheStored[k]
         IN  /\ cacheStored' = cacheStored
             /\ Unexpired(mem) =>
                  returned'.data = mem.data /\ memoryCache' = memoryCache
             /\ ~Unexpired(mem) /\ ok /\ Unexpired(sto) =>
                  /\ returned'.data = sto.data
                  /\ \E j \in DOMAIN memoryCache' :
                       /\ memoryCache'[j] = sto
                       /\ \A i \in DOMAIN memoryCache' :
                            memoryCache'[i].key = k => i = j
                  /\ OthersKept(k)
             /\ ~Unexpired(mem) /\ ~(ok /\ Unexpired(sto)) =>
                  returned'.data = "null" /\ memoryCache' = memoryCache]_vars

\* a get has just promoted an entry written earlier, beside the entry of the
\* other key, and the store holds an expired entry that is still there
C34_Witness ==
  /\ returned.op = "get" /\ returned.data # "null"
  /\ Len(memoryCache) = 2
  /\ \E i \in DOMAIN memoryCache :
       /\ memoryCache[i].key = returned.key
       /\ memoryCache[i] = cacheStored[returned.key]
       /\ memoryCache[i].timestamp < clock
  /\ \E k \in {"a", "b"} : cacheStored[k] # NoEntry /\ ~Unexpired(cacheStored[k])

\* a get or has of key k returns
Answers(k) ==
  /\ returned' # returned \/ getWait' # getWait
  /\ returned'.op \in {"get", "has"} /\ returned'.key = k
  /\ written' = written /\ cacheStored' = cacheStored /\ ~getWait'.active

\* C37: a get or has of a key that returns after the key's delete has
\* resolved, and before the key is set again, returns absent (null, false).
C37_AbsentAfterDelete ==
  [][\A k \in {"a", "b"} :
       Answers(k) /\ written[k] = NoEntry =>
         returned'.data \in {"null", "false"}]_vars

\* the same of the calls that find the store without an entry of the key,
\* its remove having been carried out
AbsentAfterRemoval ==
  [][\A k \in {"a", "b"} :
       Answers(k) /\ written[k] = NoEntry /\ cacheStored[k] = NoEntry =>
         returned'.data \in {"null", "false"}]_vars

\* the same of the calls that start after the delete while no get is
\* suspended and the memory cache holds no entry that a suspended get put
\* there after the delete
AbsentAfterRemovalUnlessOvertaken ==
  [][\A k \in {"a", "b"} :
       /\ Answers(k) /\ written[k] = NoEntry /\ cacheStored[k] = NoEntry
       /\ ~getWait.active /\ MapGet(memoryCache, k) = NoEntry
       => returned'.data \in {"null", "false"}]_vars

\* the processQueue() calls that are past the guard and the connectivity test
RunningPasses == {p \in MPasses : mpasses[p].pc \in {"read", "item"}}

\* C39: at most one processQueue pass of the mobile queue is in flight at a
\* time, however quickly processQueue is triggered again.
C39_OnePassAtATime == Cardinality(RunningPasses) <= 1

\* no item is in the loops of two passes at once
NoItemInTwoPasses ==
  \A p, q \in MPasses :
    p # q /\ mpasses[p].pc = "item" /\ mpasses[q].pc = "item" =>
      ItemIds(mpasses[p].queue) \cap ItemIds(mpasses[q].queue) = {}

\* a call made while isProcessing is set starts nothing
GuardStopsLaterCalls ==
  [][\A p \in MPasses :
       isProcessing /\ mpasses[p].pc = "idle" => mpasses'[p].pc = "idle"]_vars

\* two passes run together only if both were called before either set
\* isProcessing: a pass past the guard is there whenever isProcessing is set
ProcessingMeansPass ==
  isProcessing => \E p \in MPasses : mpasses[p].pc \in {"read", "item"}

\* the final save of a pass keeps every stored item whose add() has
\* resolved, unless the pass had it in the queue it read
PassSaveKeepsAdded ==
  [][\A p \in MPasses :
       mpasses[p].pc = "item" /\ mpasses'[p].pc = "idle" =>
         \A i \in madded \cap ItemIds(mobileStored) :
           i \in ItemIds(mobileStored') \/ i \in ItemIds(mpasses[p].queue)]_vars

\* the save of an add() keeps every stored item
AddKeepsStored ==
  [][\A a \in MAdds :
       madds[a].pc = "save" /\ madds'[a].pc = "idle" =>
         ItemIds(mobileStored) \subseteq ItemIds(mobileStored')]_vars

\* C40: an item whose add() has resolved stays in the stored queue through
\* the final save of a pass that was in flight when it was added, and through
\* the save of another add() that ran at the same time.
C40_AddedItemsStayStored == PassSaveKeepsAdded /\ AddKeepsStored

\* a save writes every item of the queue its call read, but for the items a
\* pass has posted or discarded
SaveWritesWhatWasRead ==
  [][/\ \A p \in MPasses :
          mpasses[p].pc = "item" /\ mpasses'[p].pc = "idle" =>
            \A i \in ItemIds(mpasses[p].queue) :
              i \in ItemIds(mobileStored') \/ posted[i] > 0 \/ i \in discarded
     /\ \A a \in MAdds :
          madds[a].pc = "save" /\ madds'[a].pc = "idle" =>
            ItemIds(madds[a].queue) = ItemIds(mobileStored')]_vars
====
